---- MODULE Spec2Model ----
(***************************************************************************)
(* Model of my-dashboard, the news summarization pipeline and the power    *)
(* control of the home PCs:                                                *)
(*   - the summary cache table tb_summary_cache and the article table      *)
(*     tb_news (NewsDatabase),                                             *)
(*   - the feed fetcher, the extractor and the summarization orchestrator  *)
(*     (NewsFetcher),                                                      *)
(*   - the client of the model service (LLMManager),                       *)
(*   - the background auto-summary worker and the Streamlit script that    *)
(*     starts, stops and polls it (pages/3_News_Reader.py),                *)
(*   - the power action of each device persisted in pc_state.json and the  *)
(*     fragment that polls and sets it (PCControl).                        *)
(*                                                                         *)
(* The specifications share the variables:                                 *)
(*   SpecCache  the cache API called directly (put / get / clock),         *)
(*   SpecSave   two save_summary_to_cache calls interleaved,               *)
(*   SpecSum    generate_summary called directly with arbitrary arguments, *)
(*   SpecStore  save_article / get_saved_articles next to generate_summary,*)
(*   SpecLLM    the operations of LLMManager called directly,              *)
(*   SpecFetch  fetch_feeds and get_full_text called directly,             *)
(*   Spec       one browser session of the News Reader page with its       *)
(*              background workers (SpecLive: with fairness),              *)
(*   SpecWorker, SpecRun, SpecRegen  one worker followed through its       *)
(*              backlog, alone or next to a Regen click,                   *)
(*   SpecPower  one session of the dashboard with the power control of a   *)
(*              device (SpecPowerLive: the session stays open),            *)
(*   SpecShared two sessions of the dashboard on one pc_state.json.        *)
(* The usage counters change in SpecLLM and SpecFetch, tb_news in          *)
(* SpecStore; the other specifications take generate_response by its       *)
(* reply and get_full_text by the text it returns.                         *)
(***************************************************************************)
EXTENDS Integers, Sequences, FiniteSets, TLC

VARIABLES
    now,        \* the database clock NOW(), in whole seconds (TIMESTAMP resolution)
    cache,      \* tb_summary_cache: link_hash -> row, only the rows present
    news,       \* tb_news: the saved articles, one row per link
    usage,      \* DataUsageTracker: the process-wide byte counters
    file,       \* pc_state.json: the persisted power action of each device
    last,       \* observation log of the most recent API call (arguments, calls made, result)
    calls,      \* number of API calls (SpecCache, SpecSum) or script runs (Spec) so far
    ss,         \* st.session_state of the News Reader page / of each dashboard session
    widgets,    \* the widget values the user has set / the buttons a session shows
    queue,      \* st.session_state.result_queue (queue.Queue), oldest first
    workers,    \* the threads started so far: sequence of worker records
    script      \* position of the page script run (main thread of the session)

vars == <<now, cache, news, usage, file, last, calls, ss, widgets, queue, workers, script>>

---------------------------------------------------------------------------
(* Bounds of the model *)

MaxTime == 1            \* the clock runs 0..MaxTime
MaxCalls == 2           \* API calls per behaviour of SpecCache / SpecSum
BacklogLen == 5         \* items of the backlog of SpecWorker's worker
MaxRuns == 2            \* runs of the page script per behaviour of Spec

(* Program constants *)

CacheKeep == 100        \* rows kept by the cleanup ("LIMIT 100", "count > 100")
MinTextLen == 100       \* generate_summary: len(text) < 100 is too short

None == "None"                                   \* Python None, where a string is expected
TooShortMsg == "Text too short to summarize."    \* generate_summary's fixed result
ErrReply == "Error generating response: e"       \* generate_response's except branch

---------------------------------------------------------------------------
(* Values *)

\* The usage counters of a fresh process.
NoUsage == [tx |-> 0, rx |-> 0]

\* The devices of config.json, by name.
Devices == {"pc1", "pc2"}

\* pc_state.json: whether it exists, whether json.load reads it, and its
\* entries by device name.  An entry is absent, a state as _update_state
\* writes it, or a state of the older format ("booting", "boot_start_time").
Absent == [kind |-> "absent"]
State(action, start_time) ==
    [kind |-> "state", action |-> action, start_time |-> start_time]
Legacy(booting, t) ==
    [kind |-> "legacy", booting |-> booting, boot_start_time |-> t]
NoEntries == [d \in Devices |-> Absent]
NoFile == [exists |-> FALSE, ok |-> FALSE, data |-> NoEntries]
Json_File(data) == [exists |-> TRUE, ok |-> TRUE, data |-> data]
Unreadable == [exists |-> TRUE, ok |-> FALSE, data |-> NoEntries]

\* A link (URL) is a positive number; NoLink is Python None and EmptyLink is ''.
NoLink == 0
EmptyLink == -1

\* Python truthiness: "if link", "if summary", "if cached"
LinkGiven(link) == link > 0
Truthy(s) == s # None /\ s # ""

\* hashlib.md5(link.encode('utf-8')).hexdigest(): deterministic, and injective
\* on the links of the model (md5 is collision resistant).
LinkHash(link) == <<"md5", link>>

\* One row of tb_summary_cache (the AUTO_INCREMENT id only names the row).
Row(link, summary, model, t) ==
    [link_hash |-> LinkHash(link), link |-> link, summary |-> summary,
     model |-> model, created_at |-> t]

RowsFor(c, link) == {r \in c : r.link_hash = LinkHash(link)}

---------------------------------------------------------------------------
(* NewsDatabase.get_connection *)

\* An exception that leaves the function: the value stands for the raise.
TypeErr == "raise TypeError"
QueryErr == "raise mysql.connector.Error"
Raised(x) == x \in {TypeErr, QueryErr}

\* "self.db_config = self.config.get('news_db')" is None when config.json
\* is missing or has no news_db block (fault "noconfig"): db_config['host']
\* then raises TypeError, which "except mysql.connector.Error" lets through.
\* A refused connection (fault "connect") is caught and gives None.
GetConnection(fault) ==
    CASE fault = "noconfig" -> TypeErr
      [] fault = "connect"  -> None
      [] OTHER              -> "conn"

---------------------------------------------------------------------------
(* NewsDatabase.get_summary_from_cache *)

GetFaults == {"none", "connect", "query", "noconfig"}

\* get_connection is called outside the try: what it raises leaves the
\* function.  No connection, or the SELECT raising, gives None; otherwise the
\* summary column of the row with this link_hash (fetchone), or None when
\* there is no row.
GetSummaryFromCache(c, link, fault) ==
    IF Raised(GetConnection(fault)) THEN GetConnection(fault)
    ELSE IF fault # "none" THEN None
    ELSE IF RowsFor(c, link) # {} THEN (CHOOSE r \in RowsFor(c, link) : TRUE).summary
    ELSE None

---------------------------------------------------------------------------
(* NewsDatabase.save_summary_to_cache *)

SaveFaults == {"none", "connect", "execute", "count", "cleanup", "noconfig"}

\* INSERT ... ON DUPLICATE KEY UPDATE summary=, model=, created_at=NOW():
\* without a row of this link_hash a new row is inserted (created_at from
\* DEFAULT CURRENT_TIMESTAMP); otherwise that row keeps its link column and
\* gets the new summary, model and created_at.
Upsert(c, link, summary, model, t) ==
    IF RowsFor(c, link) = {}
    THEN c \cup {Row(link, summary, model, t)}
    ELSE {IF r.link_hash = LinkHash(link)
          THEN [r EXCEPT !.summary = summary, !.model = model, !.created_at = t]
          ELSE r : r \in c}

RECURSIVE KSubsets(_, _)
KSubsets(S, k) ==
    IF k = 0 THEN {{}}
    ELSE UNION {{T \cup {x} : T \in KSubsets(S \ {x}, k - 1)} : x \in S}

\* SELECT id FROM tb_summary_cache ORDER BY created_at DESC LIMIT n:
\* the sets of rows the server may return.  created_at has one-second
\* resolution and is the only sort key, so rows that tie at the cut come in
\* any order: every choice among them is a possible result.
TopRows(c, n) ==
    IF Cardinality(c) <= n THEN {c}
    ELSE
      LET newer(t) == {r \in c : r.created_at > t}
          from(t) == {r \in c : r.created_at >= t}
          cut == CHOOSE t \in {r.created_at : r \in c} :
                     Cardinality(newer(t)) < n /\ Cardinality(from(t)) >= n
          tie == from(cut) \ newer(cut)
          drop == Cardinality(from(cut)) - n
      IN {from(cut) \ D : D \in KSubsets(tie, drop)}

\* DELETE FROM tb_summary_cache WHERE id NOT IN (the rows above): the
\* possible tables afterwards.
DeleteOldest(c) == TopRows(c, CacheKeep)

\* The possible outcomes of one call: the table afterwards and the value
\* returned.  A fault is the step that raises: no connection, the upsert
\* itself, the count query, or the DELETE (reached only when count > 100);
\* the upsert is committed before the count query runs.  get_connection is
\* called outside the try: what it raises leaves the function (raised, and
\* then nothing is returned).
SaveSummaryToCache(c, link, summary, model, t, fault) ==
    LET up == Upsert(c, link, summary, model, t) IN
    CASE Raised(GetConnection(fault)) -> {[cache |-> c, ret |-> FALSE, raised |-> TRUE]}
      [] fault = "connect" -> {[cache |-> c, ret |-> FALSE, raised |-> FALSE]}
      [] fault = "execute" -> {[cache |-> c, ret |-> FALSE, raised |-> FALSE]}
      [] fault = "count"   -> {[cache |-> up, ret |-> FALSE, raised |-> FALSE]}
      [] fault = "cleanup" ->
            IF Cardinality(up) > CacheKeep
            THEN {[cache |-> up, ret |-> FALSE, raised |-> FALSE]}
            ELSE {[cache |-> up, ret |-> TRUE, raised |-> FALSE]}
      [] OTHER ->
            IF Cardinality(up) > CacheKeep
            THEN {[cache |-> c2, ret |-> TRUE, raised |-> FALSE] : c2 \in DeleteOldest(up)}
            ELSE {[cache |-> up, ret |-> TRUE, raised |-> FALSE]}

---------------------------------------------------------------------------
(* SpecCache: the cache API called directly by any caller *)

\* The (summary, model) arguments of the calls.
PutArgs == {<<"sumA", "m1">>, <<"sumB", "m2">>}

\* Links of rows already in the table, and the links the calls use: a
\* stored one and a new one.
StoredLinks == 1..CacheKeep
PutLinks == {1, CacheKeep + 1}

\* Tables the program can have left behind: empty; 100 rows written in 100
\* different seconds; 100 rows written within the current second.
EmptyTable == {}
AgedTable == {Row(l, "old", "m0", l - CacheKeep) : l \in StoredLinks}
BurstTable == {Row(l, "old", "m0", 0) : l \in StoredLinks}

NoCall == [op |-> "none"]

SessionIdle ==
    /\ ss = [op |-> "unused"]
    /\ widgets = [op |-> "unused"]
    /\ queue = <<>>
    /\ workers = <<>>
    /\ script = "unused"

InitCache ==
    /\ now = 0
    /\ news = {}
    /\ usage = NoUsage
    /\ file = NoFile
    /\ cache \in {EmptyTable, AgedTable, BurstTable}
    /\ last = NoCall
    /\ calls = 0
    /\ SessionIdle

\* The clock passes one second.
Tick ==
    /\ now < MaxTime
    /\ now' = now + 1
    /\ UNCHANGED <<cache, news, usage, file, last, calls, ss, widgets, queue, workers, script>>

\* One call save_summary_to_cache(link, summary, model).
CachePut ==
    /\ calls < MaxCalls
    /\ \E link \in PutLinks, a \in PutArgs, fault \in SaveFaults :
         \E o \in SaveSummaryToCache(cache, link, a[1], a[2], now, fault) :
            /\ cache' = o.cache
            /\ last' = [op |-> "put", link |-> link, summary |-> a[1],
                        model |-> a[2], at |-> now, ret |-> o.ret, fault |-> fault,
                        raised |-> o.raised,
                        deleted |-> Upsert(cache, link, a[1], a[2], now) \ o.cache]
    /\ calls' = calls + 1
    /\ UNCHANGED <<now, news, usage, file, ss, widgets, queue, workers, script>>

\* One call get_summary_from_cache(link).
CacheGet ==
    /\ calls < MaxCalls
    /\ \E link \in PutLinks, fault \in GetFaults :
         last' = [op |-> "get", link |-> link, fault |-> fault,
                  ret |-> GetSummaryFromCache(cache, link, fault)]
    /\ calls' = calls + 1
    /\ UNCHANGED <<now, news, usage, file, cache, ss, widgets, queue, workers, script>>

NextCache == CachePut \/ CacheGet \/ Tick

SpecCache == InitCache /\ [][NextCache]_vars

---------------------------------------------------------------------------
(* SpecSave: two threads inside save_summary_to_cache at the same time, each
   statement of the call a step of its own.  workers holds the two calls. *)

\* A call save_summary_to_cache(link, summary, model) before its upsert; at
\* is the second of its upsert, count what its count query returned.
Saver(link, summary, model) ==
    [link |-> link, summary |-> summary, model |-> model,
     pc |-> "insert", at |-> 0, count |-> 0, ret |-> FALSE]

\* The links of the two calls: the same new link, or two new links.
SaverLinks == {<<CacheKeep + 1, CacheKeep + 1>>, <<CacheKeep + 1, CacheKeep + 2>>}

InitSave ==
    /\ now = 0
    /\ news = {}
    /\ usage = NoUsage
    /\ file = NoFile
    /\ cache \in {EmptyTable, AgedTable, BurstTable}
    /\ last = NoCall
    /\ calls = 0
    /\ ss = [op |-> "unused"]
    /\ widgets = [op |-> "unused"]
    /\ queue = <<>>
    /\ \E ls \in SaverLinks :
          workers = <<Saver(ls[1], "sumA", "m1"), Saver(ls[2], "sumB", "m2")>>
    /\ script = "unused"

\* "cursor.execute(query, ...); conn.commit()": the upsert of call k.
SaveInsert(k) ==
    /\ workers[k].pc = "insert"
    /\ cache' = Upsert(cache, workers[k].link, workers[k].summary, workers[k].model, now)
    /\ workers' = [workers EXCEPT ![k].pc = "count", ![k].at = now]
    /\ last' = [op |-> "insert", by |-> k, at |-> now]
    /\ UNCHANGED <<now, news, usage, file, calls, ss, widgets, queue, script>>

\* "SELECT count(*)": over 100 the cleanup follows, otherwise "return True".
SaveCount(k) ==
    /\ workers[k].pc = "count"
    /\ workers' = [workers EXCEPT
                      ![k].count = Cardinality(cache),
                      ![k].pc = IF Cardinality(cache) > CacheKeep THEN "cleanup" ELSE "done",
                      ![k].ret = ~(Cardinality(cache) > CacheKeep)]
    /\ UNCHANGED <<now, news, usage, file, cache, last, calls, ss, widgets, queue, script>>

\* "cursor.execute(delete_query); conn.commit()", then "return True".
SaveCleanup(k) ==
    /\ workers[k].pc = "cleanup"
    /\ cache' \in DeleteOldest(cache)
    /\ workers' = [workers EXCEPT ![k].pc = "done", ![k].ret = TRUE]
    /\ UNCHANGED <<now, news, usage, file, last, calls, ss, widgets, queue, script>>

NextSave ==
    \/ \E k \in 1..2 : SaveInsert(k) \/ SaveCount(k) \/ SaveCleanup(k)
    \/ Tick

SpecSave == InitSave /\ [][NextSave]_vars

---------------------------------------------------------------------------
(* LLMManager.generate_response and NewsFetcher.generate_summary *)

\* A text is known by its length; NoText is Python None.
Text(n) == [kind |-> "article", len |-> n]
NoText == [kind |-> "none", len |-> 0]

\* A failure message of get_full_text is a string like any text: the
\* lengths of "Could not extract text content. Site structure might be
\* complex." and of the Google News message.
CouldNotLen == 64
GoogleMsgLen == 141
Diagnostic(n) == [kind |-> "message", len |-> n]

\* The guard with the comparison off by one (<= 100).
TooShort_OffByOne(text) ==
    text.kind = "none" \/ text.len = 0 \/ text.len <= MinTextLen

\* "if not text or len(text) < 100"
TooShort(text) == text.kind = "none" \/ text.len = 0 \/ text.len < MinTextLen

\* What generate_response can return: the service's response text, '' when
\* the reply has no response field, or the string of the except branch.
ModelReplies == {"sumA", "sumB", "", ErrReply}

\* The short-text guard placed before the cache lookup.
GenBefore_GuardFirst(c, text, link, force, getFault) ==
    LET lookup == LinkGiven(link) /\ ~force
        cached == IF lookup THEN GetSummaryFromCache(c, link, getFault) ELSE None
    IN  IF TooShort(text)
        THEN [done |-> TRUE, ret |-> TooShortMsg, read |-> FALSE]
        ELSE IF lookup /\ Truthy(cached)
        THEN [done |-> TRUE, ret |-> cached, read |-> TRUE]
        ELSE [done |-> FALSE, ret |-> None, read |-> lookup]

\* The cache lookup made even with force_refresh.
GenBefore_IgnoresForce(c, text, link, force, getFault) ==
    LET lookup == LinkGiven(link)
        cached == IF lookup THEN GetSummaryFromCache(c, link, getFault) ELSE None
    IN  IF lookup /\ Truthy(cached)
        THEN [done |-> TRUE, ret |-> cached, read |-> TRUE]
        ELSE IF TooShort(text)
        THEN [done |-> TRUE, ret |-> TooShortMsg, read |-> lookup]
        ELSE [done |-> FALSE, ret |-> None, read |-> lookup]

\* A lookup that cannot reach the store ends the call without a summary.
GenBefore_FailsClosed(c, text, link, force, getFault) ==
    LET lookup == LinkGiven(link) /\ ~force
        cached == IF lookup THEN GetSummaryFromCache(c, link, getFault) ELSE None
    IN  IF lookup /\ getFault # "none"
        THEN [done |-> TRUE, ret |-> None, read |-> TRUE]
        ELSE IF lookup /\ Truthy(cached)
        THEN [done |-> TRUE, ret |-> cached, read |-> TRUE]
        ELSE IF TooShort(text)
        THEN [done |-> TRUE, ret |-> TooShortMsg, read |-> lookup]
        ELSE [done |-> FALSE, ret |-> None, read |-> lookup]

\* generate_summary up to the model call: the cache lookup (only with a link
\* and without force_refresh) and the short-text guard.  done: the function
\* has returned ret; otherwise the model is asked next.
GenBefore(c, text, link, force, getFault) ==
    LET lookup == LinkGiven(link) /\ ~force
        cached == IF lookup THEN GetSummaryFromCache(c, link, getFault) ELSE None
    IN  IF lookup /\ Truthy(cached)
        THEN [done |-> TRUE, ret |-> cached, read |-> TRUE]
        ELSE IF TooShort(text)
        THEN [done |-> TRUE, ret |-> TooShortMsg, read |-> lookup]
        ELSE [done |-> FALSE, ret |-> None, read |-> lookup]

\* The write-through left out.
GenAfter_NoWriteThrough(c, model, link, t, reply, saveFault) ==
    {[cache |-> c, ret |-> reply, saved |-> FALSE,
      saveArgs |-> <<>>, saveRet |-> FALSE]}

\* generate_summary from the model's reply on: the write-through "if link and
\* summary" at time t, and the return of the reply.
GenAfter(c, model, link, t, reply, saveFault) ==
    IF LinkGiven(link) /\ Truthy(reply)
    THEN {[cache |-> o.cache, ret |-> reply, saved |-> TRUE,
           saveArgs |-> <<link, reply, model>>, saveRet |-> o.ret]
            : o \in SaveSummaryToCache(c, link, reply, model, t, saveFault)}
    ELSE {[cache |-> c, ret |-> reply, saved |-> FALSE,
           saveArgs |-> <<>>, saveRet |-> FALSE]}

\* One whole call: the outcomes, with the calls it made.  t is the time at
\* which the model has answered.
GenerateSummary(c, text, model, link, force, t, getFault, reply, saveFault) ==
    LET b == GenBefore(c, text, link, force, getFault) IN
    IF b.done
    THEN {[cache |-> c, ret |-> b.ret, read |-> b.read, asked |-> FALSE,
           saved |-> FALSE, saveArgs |-> <<>>, saveRet |-> FALSE]}
    ELSE {[cache |-> a.cache, ret |-> a.ret, read |-> b.read, asked |-> TRUE,
           saved |-> a.saved, saveArgs |-> a.saveArgs, saveRet |-> a.saveRet]
            : a \in GenAfter(c, model, link, t, reply, saveFault)}

---------------------------------------------------------------------------
(* SpecSum: generate_summary called directly *)

SumLinks == {1, 2}
SumLinkArgs == SumLinks \cup {NoLink, EmptyLink}
SumTexts == {NoText, Text(0), Text(MinTextLen - 1), Text(MinTextLen)}
\* The store faults tried: none, no connection (a SELECT raising gives the
\* lookup the same None), the count query of the write-through raising.
SumGetFaults == {"none", "connect"}
SumSaveFaults == {"none", "connect", "count"}
SumModels == {"m1"}

\* Tables at the start: any of the links summarized earlier by another model.
OldRow(l) == Row(l, "old", "m0", 0)

InitSum ==
    /\ now = 0
    /\ news = {}
    /\ usage = NoUsage
    /\ file = NoFile
    /\ cache \in {{OldRow(l) : l \in S} : S \in SUBSET SumLinks}
    /\ last = NoCall
    /\ calls = 0
    /\ SessionIdle

\* One call generate_summary(text, model, link, force_refresh); the model
\* call, when made, takes d seconds.
GenCall ==
    /\ calls < MaxCalls
    /\ \E text \in SumTexts, model \in SumModels, link \in SumLinkArgs,
          force \in BOOLEAN, d \in 0..(MaxTime - now),
          getFault \in SumGetFaults, reply \in ModelReplies,
          saveFault \in SumSaveFaults :
         \E o \in GenerateSummary(cache, text, model, link, force, now + d,
                                  getFault, reply, saveFault) :
            /\ cache' = o.cache
            /\ now' = IF o.asked THEN now + d ELSE now
            /\ last' = [op |-> "gen", text |-> text, model |-> model,
                        link |-> link, force |-> force, ret |-> o.ret,
                        read |-> o.read, asked |-> o.asked, saved |-> o.saved,
                        saveArgs |-> o.saveArgs, saveRet |-> o.saveRet,
                        at |-> IF o.asked THEN now + d ELSE now, before |-> cache,
                        getFault |-> IF o.read THEN getFault ELSE "none",
                        reply |-> IF o.asked THEN reply ELSE None]
    /\ calls' = calls + 1
    /\ UNCHANGED <<news, usage, file, ss, widgets, queue, workers, script>>

NextSum == GenCall \/ Tick

SpecSum == InitSum /\ [][NextSum]_vars

---------------------------------------------------------------------------
(* pages/3_News_Reader.py: the session and its background workers *)

\* fetcher.sources and what fetch_feeds returns for each (the items are
\* known by their links); a failed fetch returns [].
SeqToSet(q) == {q[i] : i \in 1..Len(q)}

Sources == {"Maeil Business", "GeekNews"}
DefaultSource == "Maeil Business"
NoSource == "unset"
Feed(source) == IF source = "Maeil Business" THEN <<1, 2>> ELSE <<2, 3>>
\* The items of a worker's backlog when it is followed alone.
Backlog == [i \in 1..BacklogLen |-> i]
FeedLinks == {1, 2, 3} \cup SeqToSet(Backlog)
FetchFeeds(source) == {Feed(source), <<>>}

\* llm_manager.get_models(): the models of the service, [] when unreachable.
ModelLists == {<<>>, <<"m1">>}

\* What the environment of a worker does: get_full_text's results, the
\* model's replies (a summary, or nothing), the faults of the store.
WorkerEnv == [texts |-> {Text(MinTextLen)}, replies |-> {"sumA", ""},
              getFaults |-> {"none"}, saveFaults |-> {"none"}]

NoSummaries == [l \in FeedLinks |-> None]

\* threading.Thread(target=auto_sum_worker, args=(items, model, queue, stop_event)):
\* a thread with its own stop event, at the top of auto_sum_worker.  published
\* counts its queue puts, late those made after stop_event.set(); out lists
\* the pairs it has put, did the kinds of things it has done, and rested
\* tells that it has slept since it last asked the model.
NewWorker(items, model) ==
    [items |-> items, model |-> model, stop |-> FALSE, pc |-> "gpu", idx |-> 1,
     text |-> NoText, published |-> 0, late |-> 0,
     out |-> <<>>, did |-> {}, rested |-> TRUE]

\* Thread.is_alive()
IsAlive(w) == w.pc # "done"

\* stop_event.set() on the event of worker k
SetStop(ws, k) == [ws EXCEPT ![k].stop = TRUE]

\* The sidebar: with models available the model selectbox, the toggle
\* (first loaded from llm_config.json, here v) and the queue exist;
\* without, selected_model is None.
Sidebar(s, v) ==
    IF s.available_models # <<>>
    THEN [s EXCEPT !.selected_model = s.available_models[1],
                   !.auto_summary_enabled = IF s.auto_loaded THEN @ ELSE v,
                   !.auto_loaded = TRUE,
                   !.result_queue = TRUE]
    ELSE [s EXCEPT !.selected_model = None]

\* "while True: link, summary = result_queue.get_nowait(); summaries[link] = summary"
RECURSIVE ApplyResults(_, _)
ApplyResults(summaries, q) ==
    IF q = <<>> THEN summaries
    ELSE ApplyResults([summaries EXCEPT ![Head(q)[1]] = Head(q)[2]], Tail(q))

\* "items_to_process = [item for item in news_items if item['link'] not in summaries]"
RECURSIVE ItemsToProcess(_, _)
ItemsToProcess(items, summaries) ==
    IF items = <<>> THEN <<>>
    ELSE IF summaries[Head(items)] = None
         THEN <<Head(items)>> \o ItemsToProcess(Tail(items), summaries)
         ELSE ItemsToProcess(Tail(items), summaries)

\* The prefetch loop of a source change: summaries of the items found in the
\* cache; the lookups of the items in bad fail.
Prefetch(items, c, bad) ==
    [l \in FeedLinks |->
        IF \E i \in 1..Len(items) : items[i] = l /\ i \notin bad
        THEN LET got == GetSummaryFromCache(c, l, "none")
             IN IF Truthy(got) THEN got ELSE None
        ELSE None]

\* "if auto_sum_on and selected_model:"
AutoOn_IgnoresToggle(s) == Truthy(s.selected_model)

AutoOn(s) == s.auto_summary_enabled /\ Truthy(s.selected_model)

NeedStart_Always(s, ws) == TRUE

\* "need_start": no thread yet, or the thread is not alive, or its stop event is set.
NeedStart(s, ws) ==
    \/ s.auto_thread = 0
    \/ ~IsAlive(ws[s.auto_thread])
    \/ (s.stop_event # 0 /\ ws[s.stop_event].stop)

InitUI ==
    /\ now = 0
    /\ news = {}
    /\ usage = NoUsage
    /\ file = NoFile
    /\ cache \in {{}, {OldRow(1)}}
    /\ last = NoCall
    /\ calls = 0
    /\ ss = [current_source |-> NoSource, news_items |-> <<>>,
             summaries |-> NoSummaries, auto_thread |-> 0, stop_event |-> 0,
             auto_summary_enabled |-> FALSE, auto_loaded |-> FALSE,
             selected_model |-> None, available_models |-> <<>>,
             result_queue |-> FALSE]
    /\ widgets = [source |-> DefaultSource]
    /\ queue = <<>>
    /\ workers = <<>>
    /\ script = "load"

UNCHANGED_store == UNCHANGED <<now, news, usage, file, cache, last, calls>>

\* The first run of a session: available_models = llm_manager.get_models().
PageLoad ==
    /\ script = "load"
    /\ calls < MaxRuns
    /\ \E models \in ModelLists, v \in BOOLEAN :
          ss' = Sidebar([ss EXCEPT !.available_models = models], v)
    /\ script' = "source"
    /\ UNCHANGED <<widgets, queue, workers>>
    /\ calls' = calls + 1
    /\ UNCHANGED <<now, news, usage, file, cache, last>>

\* A rerun of the whole script with nothing changed ("Refresh Feed", st.rerun()).
Rerun ==
    /\ script = "idle"
    /\ calls < MaxRuns
    /\ ss' = Sidebar(ss, FALSE)
    /\ script' = "source"
    /\ UNCHANGED <<widgets, queue, workers>>
    /\ calls' = calls + 1
    /\ UNCHANGED <<now, news, usage, file, cache, last>>

\* The user picks another source in the selectbox.
SelectSource ==
    /\ script = "idle"
    /\ calls < MaxRuns
    /\ \E source \in Sources \ {widgets.source} :
          widgets' = [widgets EXCEPT !.source = source]
    /\ ss' = Sidebar(ss, FALSE)
    /\ script' = "source"
    /\ UNCHANGED <<queue, workers>>
    /\ calls' = calls + 1
    /\ UNCHANGED <<now, news, usage, file, cache, last>>

\* The user flips the Auto Summary toggle (shown when models are available).
ToggleAuto ==
    /\ script = "idle"
    /\ calls < MaxRuns
    /\ ss.auto_loaded /\ ss.available_models # <<>>
    /\ ss' = Sidebar([ss EXCEPT !.auto_summary_enabled = ~@], FALSE)
    /\ script' = "source"
    /\ UNCHANGED <<widgets, queue, workers>>
    /\ calls' = calls + 1
    /\ UNCHANGED <<now, news, usage, file, cache, last>>

\* The "Check" button: this run's sidebar still uses the old list, then
\* available_models is fetched again.
CheckModels ==
    /\ script = "idle"
    /\ calls < MaxRuns
    /\ \E models \in ModelLists :
          ss' = [Sidebar(ss, FALSE) EXCEPT !.available_models = models]
    /\ script' = "source"
    /\ UNCHANGED <<widgets, queue, workers>>
    /\ calls' = calls + 1
    /\ UNCHANGED <<now, news, usage, file, cache, last>>

\* Lines 219-231: on a source change fetch the feed, signal the old thread to
\* stop, reset the summaries and prefetch them from the cache.
SourceStep ==
    /\ script = "source"
    /\ IF ss.current_source # widgets.source
       THEN \E items \in FetchFeeds(widgets.source) :
            \E bad \in {{}} :
               /\ ss' = [ss EXCEPT !.news_items = items,
                                   !.current_source = widgets.source,
                                   !.summaries = Prefetch(items, cache, bad)]
               /\ workers' = IF ss.stop_event # 0
                             THEN SetStop(workers, ss.stop_event) ELSE workers
       ELSE UNCHANGED <<ss, workers>>
    /\ script' = "thread"
    /\ UNCHANGED <<widgets, queue>>
    /\ UNCHANGED_store

\* Lines 237-275: start a worker, or signal the existing one to stop.
ThreadStep ==
    /\ script = "thread"
    /\ IF AutoOn(ss)
       THEN LET items == ItemsToProcess(ss.news_items, ss.summaries) IN
            IF NeedStart(ss, workers) /\ items # <<>>
            THEN /\ workers' = Append(workers, NewWorker(items, ss.selected_model))
                 /\ ss' = [ss EXCEPT !.auto_thread = Len(workers) + 1,
                                     !.stop_event = Len(workers) + 1]
            ELSE UNCHANGED <<ss, workers>>
       ELSE /\ workers' = IF ss.stop_event # 0
                          THEN SetStop(workers, ss.stop_event) ELSE workers
            /\ UNCHANGED ss
    /\ script' = "render"
    /\ UNCHANGED <<widgets, queue>>
    /\ UNCHANGED_store

GetNowait_Drops(s, q) == s

\* "link, summary = result_queue.get_nowait(); summaries[link] = summary"
GetNowait(s, q) == [s EXCEPT !.summaries[Head(q)[1]] = Head(q)[2]]

\* render_news_list: one turn of the poll loop; queue.Empty ends it, and
\* the list is drawn: with the Regen button of an item pressed its handler
\* runs next.
RenderStep ==
    /\ script = "render"
    /\ IF ss.result_queue /\ queue # <<>>
       THEN /\ ss' = GetNowait(ss, queue)
            /\ queue' = Tail(queue)
            /\ UNCHANGED script
       ELSE /\ script' = IF last.op = "regen" THEN "regen" ELSE "idle"
            /\ UNCHANGED <<ss, queue>>
    /\ UNCHANGED <<widgets, workers>>
    /\ UNCHANGED_store

\* render_news_list run alone by the fragment timer (run_every=2, only with
\* auto-summary enabled): the first turn of its poll loop.  A run that finds
\* the queue empty changes nothing.
FragmentPoll ==
    /\ script = "idle"
    /\ ss.auto_summary_enabled
    /\ ss.result_queue
    /\ queue # <<>>
    /\ ss' = GetNowait(ss, queue)
    /\ queue' = Tail(queue)
    /\ script' = "render"
    /\ UNCHANGED <<widgets, workers>>
    /\ UNCHANGED_store

\* auto_sum_worker, one action per step of worker w in environment env.

WorkerAt(w, pc) == w \in 1..Len(workers) /\ workers[w].pc = pc

CurrentLink_First(w) == workers[w].items[1]

\* "link = item['link']"
CurrentLink(w) == workers[w].items[workers[w].idx]

\* The worker record after result_queue.put((link, summary)) by worker w,
\* then at pc.
Published(w, pc, summary) ==
    [workers[w] EXCEPT !.pc = pc, !.published = @ + 1,
                       !.late = IF workers[w].stop THEN @ + 1 ELSE @,
                       !.out = Append(@, <<CurrentLink(w), summary>>)]

\* "gpu_info = llm_manager.get_gpu_info(); if not gpu_info: return"
WorkerGpu_Proceeds(w) ==
    /\ WorkerAt(w, "gpu")
    /\ \E gpus \in {<<>>, <<"GeForce RTX 2080 Ti">>} :
          workers' = [workers EXCEPT ![w].pc = "check",
                         ![w].did = @ \cup (IF gpus = <<>> THEN {"nogpu"} ELSE {})]
    /\ UNCHANGED <<ss, widgets, queue, script>>
    /\ UNCHANGED_store

WorkerGpu(w) ==
    /\ WorkerAt(w, "gpu")
    /\ \E gpus \in {<<>>, <<"GeForce RTX 2080 Ti">>} :
          workers' = IF gpus = <<>>
                     THEN [workers EXCEPT ![w].pc = "done", ![w].did = @ \cup {"nogpu"}]
                     ELSE [workers EXCEPT ![w].pc = "check"]
    /\ UNCHANGED <<ss, widgets, queue, script>>
    /\ UNCHANGED_store

\* "stop_event.is_set()"
StopRequested_Never(w) == FALSE

StopRequested(w) == workers[w].stop

\* A loop that starts over at the end of the backlog.
WorkerCheck_Restarts(w) ==
    /\ WorkerAt(w, "check")
    /\ workers' = IF StopRequested(w)
                  THEN [workers EXCEPT ![w].pc = "done"]
                  ELSE IF workers[w].idx > Len(workers[w].items)
                  THEN [workers EXCEPT ![w].idx = 1]
                  ELSE [workers EXCEPT ![w].pc = "lookup"]
    /\ UNCHANGED <<ss, widgets, queue, script>>
    /\ UNCHANGED_store

\* "for item in news_items: if stop_event.is_set(): break"
WorkerCheck(w) ==
    /\ WorkerAt(w, "check")
    /\ workers' = [workers EXCEPT ![w].pc =
                      IF workers[w].idx > Len(workers[w].items) \/ StopRequested(w)
                      THEN "done" ELSE "lookup"]
    /\ UNCHANGED <<ss, widgets, queue, script>>
    /\ UNCHANGED_store

\* A worker without the try: what the lookup raises ends the thread.
WorkerLookup_RaiseEnds(w, env) ==
    /\ WorkerAt(w, "lookup")
    /\ \E fault \in env.getFaults :
         IF fault = "raise"
         THEN /\ workers' = [workers EXCEPT ![w].pc = "done",
                                            ![w].did = @ \cup {"raise"}]
              /\ UNCHANGED queue
         ELSE
         LET cached == GetSummaryFromCache(cache, CurrentLink(w), fault) IN
         IF Truthy(cached)
         THEN /\ queue' = Append(queue, <<CurrentLink(w), cached>>)
              /\ workers' = [workers EXCEPT
                                ![w] = [Published(w, "check", cached) EXCEPT
                                           !.idx = @ + 1,
                                           !.did = @ \cup {"read", "hit"}]]
         ELSE /\ workers' = [workers EXCEPT ![w].pc = "extract",
                                            ![w].did = @ \cup {"read"}]
              /\ UNCHANGED queue
    /\ UNCHANGED <<ss, widgets, script>>
    /\ UNCHANGED_store

\* A worker that publishes the cached summary without the "continue".
WorkerLookup_NoContinue(w, env) ==
    /\ WorkerAt(w, "lookup")
    /\ \E fault \in env.getFaults \ {"raise"} :
         LET cached == GetSummaryFromCache(cache, CurrentLink(w), fault) IN
         /\ queue' = IF Truthy(cached)
                     THEN Append(queue, <<CurrentLink(w), cached>>) ELSE queue
         /\ workers' = [workers EXCEPT
                           ![w] = [(IF Truthy(cached)
                                    THEN Published(w, "extract", cached)
                                    ELSE workers[w]) EXCEPT
                                      !.pc = "extract",
                                      !.did = @ \cup {"read"}]]
    /\ UNCHANGED <<ss, widgets, script>>
    /\ UNCHANGED_store

\* "db = NewsDatabase(); cached_sum = db.get_summary_from_cache(link);
\* if cached_sum: put; continue".  With the fault "raise" the call raises
\* (config.json without a usable news_db entry: get_connection fails outside
\* every try of news_manager): "except Exception", on to the next item.
WorkerLookup(w, env) ==
    /\ WorkerAt(w, "lookup")
    /\ \E fault \in env.getFaults :
         IF fault = "raise"
         THEN /\ workers' = [workers EXCEPT ![w].pc = "check", ![w].idx = @ + 1,
                                            ![w].did = @ \cup {"raise"}]
              /\ UNCHANGED queue
         ELSE
         LET cached == GetSummaryFromCache(cache, CurrentLink(w), fault) IN
         IF Truthy(cached)
         THEN /\ queue' = Append(queue, <<CurrentLink(w), cached>>)
              /\ workers' = [workers EXCEPT
                                ![w] = [Published(w, "check", cached) EXCEPT
                                           !.idx = @ + 1,
                                           !.did = @ \cup {"read", "hit"}]]
         ELSE /\ workers' = [workers EXCEPT ![w].pc = "extract",
                                            ![w].did = @ \cup {"read"}]
              /\ UNCHANGED queue
    /\ UNCHANGED <<ss, widgets, script>>
    /\ UNCHANGED_store

\* A worker that gives the item up after the extraction.
WorkerExtract_SkipsItem(w, env) ==
    /\ WorkerAt(w, "extract")
    /\ \E text \in env.texts :
          workers' = [workers EXCEPT ![w].pc = "sleep", ![w].text = text,
                         ![w].did = @ \cup {"extract"} \cup
                                    (IF TooShort(text) THEN {"short"} ELSE {})]
    /\ UNCHANGED <<ss, widgets, queue, script>>
    /\ UNCHANGED_store

\* "text = fetcher.get_full_text(link)"
WorkerExtract(w, env) ==
    /\ WorkerAt(w, "extract")
    /\ \E text \in env.texts :
          workers' = [workers EXCEPT ![w].pc = "gen", ![w].text = text,
                         ![w].did = @ \cup {"extract"} \cup
                                    (IF TooShort(text) THEN {"short"} ELSE {})]
    /\ UNCHANGED <<ss, widgets, queue, script>>
    /\ UNCHANGED_store

\* "summary = fetcher.generate_summary(text, model, link=link)" up to the
\* model call; when it has returned, "if summary: put" and on to the sleep.
\* The lookup of this item did not raise, so this second one does not.
WorkerGen(w, env) ==
    /\ WorkerAt(w, "gen")
    /\ \E fault \in env.getFaults \ {"raise"} :
         LET b == GenBefore(cache, workers[w].text, CurrentLink(w), FALSE, fault) IN
         IF b.done
         THEN IF Truthy(b.ret)
              THEN /\ queue' = Append(queue, <<CurrentLink(w), b.ret>>)
                   /\ workers' = [workers EXCEPT
                                     ![w] = [Published(w, "sleep", b.ret) EXCEPT
                                                !.did = @ \cup (IF b.ret = TooShortMsg
                                                                THEN {} ELSE {"hit"})]]
              ELSE /\ workers' = [workers EXCEPT ![w].pc = "sleep"]
                   /\ UNCHANGED queue
         ELSE /\ workers' = [workers EXCEPT ![w].pc = "model",
                                            ![w].did = @ \cup {"ask"},
                                            ![w].rested = FALSE]
              /\ UNCHANGED queue
    /\ UNCHANGED <<ss, widgets, script>>
    /\ UNCHANGED_store

\* What a model reply and its write-through add to did.
ReplyEvents(a) ==
    (IF a.ret = ErrReply THEN {"badreply"} ELSE {}) \cup
    (IF ~Truthy(a.ret) THEN {"noreply"} ELSE {}) \cup
    (IF a.saved /\ ~a.saveRet THEN {"unsaved"} ELSE {})

\* A worker that goes on to the next item without the sleep.
WorkerModel_NoSleep(w, env) ==
    /\ WorkerAt(w, "model")
    /\ \E reply \in env.replies, fault \in env.saveFaults :
       \E a \in GenAfter(cache, workers[w].model, CurrentLink(w), now, reply, fault) :
          /\ cache' = a.cache
          /\ IF Truthy(a.ret)
             THEN /\ queue' = Append(queue, <<CurrentLink(w), a.ret>>)
                  /\ workers' = [workers EXCEPT
                                    ![w] = [Published(w, "check", a.ret) EXCEPT
                                               !.idx = @ + 1,
                                               !.did = @ \cup ReplyEvents(a)]]
             ELSE /\ workers' = [workers EXCEPT ![w].pc = "check", ![w].idx = @ + 1,
                                                ![w].did = @ \cup ReplyEvents(a)]
                  /\ UNCHANGED queue
    /\ UNCHANGED <<ss, widgets, script, now, news, usage, file, last, calls>>

\* The model answers: the rest of generate_summary, then "if summary: put".
WorkerModel(w, env) ==
    /\ WorkerAt(w, "model")
    /\ \E reply \in env.replies, fault \in env.saveFaults :
       \E a \in GenAfter(cache, workers[w].model, CurrentLink(w), now, reply, fault) :
          /\ cache' = a.cache
          /\ IF Truthy(a.ret)
             THEN /\ queue' = Append(queue, <<CurrentLink(w), a.ret>>)
                  /\ workers' = [workers EXCEPT
                                    ![w] = [Published(w, "sleep", a.ret) EXCEPT
                                               !.did = @ \cup ReplyEvents(a)]]
             ELSE /\ workers' = [workers EXCEPT ![w].pc = "sleep",
                                                ![w].did = @ \cup ReplyEvents(a)]
                  /\ UNCHANGED queue
    /\ UNCHANGED <<ss, widgets, script, now, news, usage, file, last, calls>>

\* A worker that clears the session's thread handle when it moves on.
WorkerSleep_TouchesSession(w) ==
    /\ WorkerAt(w, "sleep")
    /\ workers' = [workers EXCEPT ![w].pc = "check", ![w].idx = @ + 1,
                                  ![w].rested = TRUE]
    /\ ss' = [ss EXCEPT !.auto_thread = 0]
    /\ UNCHANGED <<widgets, queue, script>>
    /\ UNCHANGED_store

\* "time.sleep(1)", then the next item
WorkerSleep(w) ==
    /\ WorkerAt(w, "sleep")
    /\ workers' = [workers EXCEPT ![w].pc = "check", ![w].idx = @ + 1,
                                  ![w].rested = TRUE]
    /\ UNCHANGED <<ss, widgets, queue, script>>
    /\ UNCHANGED_store

WorkerStep(w, env) ==
    \/ WorkerGpu(w)
    \/ WorkerCheck(w)
    \/ WorkerLookup(w, env)
    \/ WorkerExtract(w, env)
    \/ WorkerGen(w, env)
    \/ WorkerModel(w, env)
    \/ WorkerSleep(w)

Next ==
    \/ PageLoad
    \/ Rerun
    \/ SelectSource
    \/ ToggleAuto
    \/ CheckModels
    \/ SourceStep
    \/ ThreadStep
    \/ RenderStep
    \/ FragmentPoll
    \/ \E w \in 1..Len(workers) : WorkerStep(w, WorkerEnv)

Spec == InitUI /\ [][Next]_vars

\* The session with everything that happens by itself happening: the script
\* run goes on to its end, the fragment timer fires, the threads run.  What
\* the user does (PageLoad, Rerun, SelectSource, ToggleAuto, CheckModels)
\* may or may not happen.
SpecLive ==
    /\ Spec
    /\ WF_vars(SourceStep) /\ WF_vars(ThreadStep) /\ WF_vars(RenderStep)
    /\ WF_vars(FragmentPoll)
    /\ \A w \in 1..MaxRuns : WF_vars(WorkerStep(w, WorkerEnv))

---------------------------------------------------------------------------
(* One worker followed through its whole backlog: the session just after a
   run that started it, with Auto Summary on, and one later run in which
   the user turns the toggle off. *)

InitWorker ==
    /\ now = 0
    /\ news = {}
    /\ usage = NoUsage
    /\ file = NoFile
    /\ cache \in {{}, {OldRow(2)}}
    /\ last = NoCall
    /\ calls = MaxRuns - 1
    /\ ss = [current_source |-> DefaultSource, news_items |-> Backlog,
             summaries |-> NoSummaries, auto_thread |-> 1, stop_event |-> 1,
             auto_summary_enabled |-> TRUE, auto_loaded |-> TRUE,
             selected_model |-> "m1", available_models |-> <<"m1">>,
             result_queue |-> TRUE]
    /\ widgets = [source |-> DefaultSource]
    /\ queue = <<>>
    /\ workers = <<NewWorker(Backlog, "m1")>>
    /\ script = "idle"

NextWorker ==
    \/ ToggleAuto
    \/ SourceStep
    \/ ThreadStep
    \/ RenderStep
    \/ FragmentPoll
    \/ WorkerStep(1, WorkerEnv)

SpecWorker == InitWorker /\ [][NextWorker]_vars

---------------------------------------------------------------------------
(* One worker on a feed of three items with every outcome of its calls: the
   extraction short or long or one of get_full_text's failure messages, the
   model answering a summary, nothing or its
   error text, the store refusing a write, a cache call raising; and one
   later run in which the user turns the toggle off. *)

RunItems == <<1, 2, 3>>

RunEnv == [texts |-> {Text(MinTextLen - 1), Text(MinTextLen),
                       Diagnostic(CouldNotLen), Diagnostic(GoogleMsgLen)},
           replies |-> {"sumA", "", ErrReply},
           getFaults |-> {"none", "raise"},
           saveFaults |-> {"none", "connect"}]

InitRun ==
    /\ now = 0
    /\ news = {}
    /\ usage = NoUsage
    /\ file = NoFile
    /\ cache \in {{}, {OldRow(2)}}
    /\ last = NoCall
    /\ calls = MaxRuns - 1
    /\ ss = [current_source |-> DefaultSource, news_items |-> RunItems,
             summaries |-> NoSummaries, auto_thread |-> 1, stop_event |-> 1,
             auto_summary_enabled |-> TRUE, auto_loaded |-> TRUE,
             selected_model |-> "m1", available_models |-> <<"m1">>,
             result_queue |-> TRUE]
    /\ widgets = [source |-> DefaultSource]
    /\ queue = <<>>
    /\ workers = <<NewWorker(RunItems, "m1")>>
    /\ script = "idle"

NextRun ==
    \/ ToggleAuto
    \/ SourceStep
    \/ ThreadStep
    \/ RenderStep
    \/ FragmentPoll
    \/ WorkerStep(1, RunEnv)

SpecRun == InitRun /\ [][NextRun]_vars

---------------------------------------------------------------------------
(* The Regen button of an expanded item, pressed while a worker is running:
   generate_summary(full_text, model, link, force_refresh=True) in the
   foreground.  last holds the call: its link and text, and where the
   worker was when the model was asked and when the call returned. *)

\* fetched_texts of the expanded item, and the model's replies to Regen.
RegenEnv == [texts |-> {NoText, Text(MinTextLen)}, replies |-> {"sumB", ""},
             saveFaults |-> {"none"}]

\* Where worker 1 is: its position and the link it is at (NoLink past the end).
WorkerSpot ==
    [pc |-> workers[1].pc,
     link |-> IF workers[1].idx <= Len(workers[1].items) THEN CurrentLink(1) ELSE NoLink]

\* The user presses Regen on an item: the fragment runs, first its poll loop.
RegenClick ==
    /\ script = "idle"
    /\ calls < MaxRuns
    /\ last.op = "none"
    /\ Truthy(ss.selected_model)
    /\ \E i \in 1..Len(ss.news_items), text \in RegenEnv.texts :
          last' = [op |-> "regen", link |-> ss.news_items[i], text |-> text,
                   asked |-> FALSE, spotAsked |-> WorkerSpot,
                   spotBack |-> WorkerSpot, ret |-> None]
    /\ script' = "render"
    /\ UNCHANGED <<now, news, usage, file, cache, calls, ss, widgets, queue, workers>>

\* The handler: generate_summary up to the model call.  Too short a text
\* returns at once: "summaries[link] = summary; st.rerun()".
RegenCall ==
    /\ script = "regen"
    /\ LET b == GenBefore(cache, last.text, last.link, TRUE, "none") IN
       IF b.done
       THEN /\ ss' = Sidebar([ss EXCEPT !.summaries[last.link] = b.ret], FALSE)
            /\ last' = [last EXCEPT !.op = "regenerated", !.ret = b.ret,
                                    !.spotBack = WorkerSpot]
            /\ script' = "source"
            /\ calls' = calls + 1
       ELSE /\ last' = [last EXCEPT !.asked = TRUE, !.spotAsked = WorkerSpot]
            /\ script' = "regen-model"
            /\ UNCHANGED <<ss, calls>>
    /\ UNCHANGED <<now, news, usage, file, cache, widgets, queue, workers>>

\* A Regen that waits until no worker is in its model call.
RegenModel_WaitsForWorker ==
    /\ script = "regen-model"
    /\ \A k \in 1..Len(workers) : workers[k].pc # "model"
    /\ \E reply \in RegenEnv.replies, fault \in RegenEnv.saveFaults :
       \E a \in GenAfter(cache, ss.selected_model, last.link, now, reply, fault) :
          /\ cache' = a.cache
          /\ ss' = Sidebar([ss EXCEPT !.summaries[last.link] = a.ret], FALSE)
          /\ last' = [last EXCEPT !.op = "regenerated", !.ret = a.ret,
                                  !.spotBack = WorkerSpot]
    /\ script' = "source"
    /\ calls' = calls + 1
    /\ UNCHANGED <<now, news, usage, file, widgets, queue, workers>>

\* The model answers: the write-through, the return,
\* "summaries[link] = summary; st.rerun()".
RegenModel ==
    /\ script = "regen-model"
    /\ \E reply \in RegenEnv.replies, fault \in RegenEnv.saveFaults :
       \E a \in GenAfter(cache, ss.selected_model, last.link, now, reply, fault) :
          /\ cache' = a.cache
          /\ ss' = Sidebar([ss EXCEPT !.summaries[last.link] = a.ret], FALSE)
          /\ last' = [last EXCEPT !.op = "regenerated", !.ret = a.ret,
                                  !.spotBack = WorkerSpot]
    /\ script' = "source"
    /\ calls' = calls + 1
    /\ UNCHANGED <<now, news, usage, file, widgets, queue, workers>>

\* The session of InitWorker with a feed of two items.
InitRegen ==
    /\ now = 0
    /\ news = {}
    /\ usage = NoUsage
    /\ file = NoFile
    /\ cache = {}
    /\ last = NoCall
    /\ calls = MaxRuns - 1
    /\ ss = [current_source |-> DefaultSource, news_items |-> Feed(DefaultSource),
             summaries |-> NoSummaries, auto_thread |-> 1, stop_event |-> 1,
             auto_summary_enabled |-> TRUE, auto_loaded |-> TRUE,
             selected_model |-> "m1", available_models |-> <<"m1">>,
             result_queue |-> TRUE]
    /\ widgets = [source |-> DefaultSource]
    /\ queue = <<>>
    /\ workers = <<NewWorker(Feed(DefaultSource), "m1")>>
    /\ script = "idle"

NextRegen ==
    \/ RegenClick
    \/ RegenCall
    \/ RegenModel
    \/ SourceStep
    \/ ThreadStep
    \/ RenderStep
    \/ FragmentPoll
    \/ \E w \in 1..Len(workers) : WorkerStep(w, WorkerEnv)

SpecRegen == InitRegen /\ [][NextRegen]_vars

---------------------------------------------------------------------------
(* modules/llm_manager.py: LLMManager, the client of the model service *)

\* What a request to the service ends in: no response (the timeout, the
\* connection refused: requests raises), or a response with its status, the
\* length of its body and the body as response.json() decodes it (NotJson
\* when it raises).
NotJson == [json |-> FALSE]
Json(fields) == [json |-> TRUE, fields |-> fields]
NoResponse(why) == [kind |-> why]
Response(status, size, body) == [kind |-> "http", status |-> status,
                                 size |-> size, body |-> body]
Answered(r) == r.kind = "http"
HasField(body, f) == body.json /\ f \in DOMAIN body.fields

StatusOk == 200

\* "return True, 'Connected'", "return False, f'Status Code: {code}'",
\* "return False, str(e)"
CheckConnection(r) ==
    IF ~Answered(r) THEN [raised |-> FALSE, ret |-> <<FALSE, [text |-> r.kind]>>]
    ELSE IF r.status = StatusOk
    THEN [raised |-> FALSE, ret |-> <<TRUE, [text |-> "Connected"]>>]
    ELSE [raised |-> FALSE,
          ret |-> <<FALSE, [text |-> "Status Code", code |-> r.status]>>]

\* "[m['name'] for m in resp.json().get('models', [])]" on status 200, []
\* on any other status and on any exception (no response, a body that is
\* not JSON).
GetModels_TrustsBody(r) ==
    IF ~Answered(r) THEN [raised |-> FALSE, ret |-> <<>>]
    ELSE IF r.status # StatusOk THEN [raised |-> FALSE, ret |-> <<>>]
    ELSE IF ~r.body.json THEN [raised |-> TRUE, ret |-> <<>>]
    ELSE IF HasField(r.body, "models") THEN [raised |-> FALSE, ret |-> r.body.fields.models]
    ELSE [raised |-> FALSE, ret |-> <<>>]

GetModels(r) ==
    IF ~Answered(r) THEN [raised |-> FALSE, ret |-> <<>>]
    ELSE IF r.status # StatusOk THEN [raised |-> FALSE, ret |-> <<>>]
    ELSE IF ~r.body.json THEN [raised |-> FALSE, ret |-> <<>>]
    ELSE IF HasField(r.body, "models") THEN [raised |-> FALSE, ret |-> r.body.fields.models]
    ELSE [raised |-> FALSE, ret |-> <<>>]

\* len(json.dumps({"model": model, "prompt": prompt, "stream": False})) for
\* a prompt of n plain characters and a model name of two.
PayloadFrame == 44
PayloadLen(n, model) == PayloadFrame + 2 + n

\* DataUsageTracker: add_tx and add_rx add to the process-wide counters;
\* the tracker can fail (fault = the call of it that raises).
TrackerFaults == {"none", "tx", "rx"}
AddTx(u, n) == [u EXCEPT !.tx = @ + n]
AddRx(u, n) == [u EXCEPT !.rx = @ + n]

\* generate_response(prompt, model) with stream=False, the whole body in one
\* try: requests.post, raise_for_status, tracker.add_tx, response.json(),
\* .get("response", ""), tracker.add_rx, return; whatever raises on the way
\* gives the text of the except branch.
GenerateResponse(u, n, model, r, tf) ==
    LET err(v) == [usage |-> v, raised |-> FALSE, ret |-> ErrReply] IN
    IF ~Answered(r) THEN err(u)
    ELSE IF r.status >= 400 THEN err(u)
    ELSE IF tf = "tx" THEN err(u)
    ELSE IF ~r.body.json THEN err(AddTx(u, PayloadLen(n, model)))
    ELSE IF tf = "rx" THEN err(AddTx(u, PayloadLen(n, model)))
    ELSE [usage |-> AddRx(AddTx(u, PayloadLen(n, model)), r.size),
          raised |-> FALSE,
          ret |-> IF HasField(r.body, "response") THEN r.body.fields.response ELSE ""]

\* What "ssh ... nvidia-smi" ends in: its exit code and output lines, or the
\* 3 second timeout of subprocess.run (rc -1 here).
SshTimeout == [rc |-> -1, lines |-> <<>>]
SshDone(rc, lines) == [rc |-> rc, lines |-> lines]

RECURSIVE NonBlank(_)
NonBlank(q) ==
    IF q = <<>> THEN <<>>
    ELSE IF Head(q) = "" THEN NonBlank(Tail(q))
    ELSE <<Head(q)>> \o NonBlank(Tail(q))

\* get_gpu_info: the non-blank output lines on exit code 0, [] otherwise.
GetGpuInfo(r) ==
    IF r = SshTimeout THEN [raised |-> FALSE, ret |-> <<>>]
    ELSE IF r.rc = 0 THEN [raised |-> FALSE, ret |-> NonBlank(r.lines)]
    ELSE [raised |-> FALSE, ret |-> <<>>]

---------------------------------------------------------------------------
(* SpecLLM: the operations of LLMManager called directly *)

NoAnswers == {NoResponse("timeout"), NoResponse("refused")}

\* Answers of GET /api/tags.
TagsReplies ==
    NoAnswers \cup
    {Response(StatusOk, 30, Json([models |-> <<"m1", "m2">>])),
     Response(StatusOk, 2, Json([other |-> <<>>])),
     Response(StatusOk, 9, NotJson),
     Response(404, 9, NotJson),
     Response(500, 30, Json([models |-> <<"m1">>]))}

\* Answers of POST /api/generate.
GenerateReplies ==
    NoAnswers \cup
    {Response(StatusOk, 40, Json([response |-> "sumA"])),
     Response(StatusOk, 20, Json([done |-> TRUE])),
     Response(StatusOk, 9, NotJson),
     Response(404, 30, Json([error |-> "model not found"])),
     Response(500, 40, Json([response |-> "sumB"]))}

PromptLens == {150, 3000}

SshResults ==
    {SshTimeout,
     SshDone(0, <<"GeForce RTX 2080 Ti", "GeForce RTX 2080 Ti">>),
     SshDone(0, <<"">>),
     SshDone(255, <<>>),
     SshDone(9, <<"GeForce RTX 2080 Ti">>)}

InitLLM ==
    /\ now = 0
    /\ cache = {}
    /\ news = {}
    /\ usage = NoUsage
    /\ file = NoFile
    /\ last = NoCall
    /\ calls = 0
    /\ SessionIdle

LlmFrame == UNCHANGED <<now, cache, news, file, ss, widgets, queue, workers, script>>

LlmCheck ==
    /\ calls < MaxCalls
    /\ \E r \in TagsReplies :
          last' = [op |-> "check", reply |-> r, out |-> CheckConnection(r)]
    /\ calls' = calls + 1
    /\ UNCHANGED usage
    /\ LlmFrame

LlmModels ==
    /\ calls < MaxCalls
    /\ \E r \in TagsReplies :
          last' = [op |-> "models", reply |-> r, out |-> GetModels(r)]
    /\ calls' = calls + 1
    /\ UNCHANGED usage
    /\ LlmFrame

LlmGenerate ==
    /\ calls < MaxCalls
    /\ \E n \in PromptLens, r \in GenerateReplies, tf \in TrackerFaults :
         LET o == GenerateResponse(usage, n, "m1", r, tf) IN
         /\ usage' = o.usage
         /\ last' = [op |-> "generate", reply |-> r, prompt |-> n, model |-> "m1",
                     tracker |-> IF Answered(r) /\ r.status < 400 THEN tf ELSE "none",
                     before |-> usage,
                     out |-> [raised |-> o.raised, ret |-> o.ret]]
    /\ calls' = calls + 1
    /\ LlmFrame

LlmGpu ==
    /\ calls < MaxCalls
    /\ \E r \in SshResults :
          last' = [op |-> "gpu", reply |-> r, out |-> GetGpuInfo(r)]
    /\ calls' = calls + 1
    /\ UNCHANGED usage
    /\ LlmFrame

NextLLM == LlmCheck \/ LlmModels \/ LlmGenerate \/ LlmGpu

SpecLLM == InitLLM /\ [][NextLLM]_vars

---------------------------------------------------------------------------
(* NewsFetcher.fetch_feeds and NewsFetcher.get_full_text *)

\* A paragraph is known by its place in the document and the length of its
\* stripped text; an element by the text blocks inside it.
Para(id, len) == [id |-> id, len |-> len]
NoEl == [present |-> FALSE, parts |-> <<>>]
El(parts) == [present |-> TRUE, parts |-> parts]

\* The document as BeautifulSoup finds it after the decompose of script,
\* style, nav, header and footer: the first itemprop="articleBody" element,
\* the first <article>, the <div>s of class art_txt / view_txt / news_view,
\* and all <p> of the document, in document order.
Html(body, article, divs, paras) ==
    [body |-> body, article |-> article, divs |-> divs, paras |-> paras]

\* A response of requests.get: its status, the length of its content, the
\* document, and for a Google News page the redirect it carries: "js"
\* (window.location.replace("...")), "anchor" (fewer than five <a>, the first
\* with an href), "none".
Web(status, size, page, redirect) ==
    [kind |-> "http", status |-> status, size |-> size, page |-> page,
     redirect |-> redirect]

Url(id, google) == [id |-> id, google |-> google]

MinParaLen == 40

IsLong(p) == p.len > MinParaLen

\* What get_full_text returns is a string: the extracted text, here the
\* pieces joined by blank lines, each piece the blocks joined by newlines;
\* or one of its three messages.
Content(pieces) == [kind |-> "content", pieces |-> pieces, msg |-> ""]
Message(msg) == [kind |-> "message", pieces |-> <<>>, msg |-> msg]
CouldNotMsg == "Could not extract text content. Site structure might be complex."
GoogleMsg == "Content extraction failed. Google News often blocks full-text extraction tools."
FetchErrMsg == "Error fetching content: e"

\* "text = '\n\n'.join(text_content)" is the empty string
TextEmpty(pieces) ==
    pieces = <<>> \/ (Len(pieces) = 1 /\ pieces[1] = <<>>)

EachAlone(q) == [i \in 1..Len(q) |-> <<q[i]>>]

\* modules/news_manager.py: articleBody, else <article>, else the class
\* divs, each with its whole text; else the <p> longer than 40.
Strategies(page) ==
    IF page.body.present THEN <<page.body.parts>>
    ELSE IF page.article.present THEN <<page.article.parts>>
    ELSE IF page.divs # <<>> THEN [i \in 1..Len(page.divs) |-> page.divs[i].parts]
    ELSE EachAlone(SelectSeq(page.paras, IsLong))

\* news_manager.py: the <p> of <article>, else all <p>; of these the ones
\* longer than 40.
StrategiesTop(page) ==
    EachAlone(SelectSeq(IF page.article.present THEN page.article.parts
                        ELSE page.paras, IsLong))

\* "if not text and 'news.google.com' in url: return ...; return text if
\* text else 'Could not extract ...'"
Finish(url, pieces) ==
    IF ~TextEmpty(pieces) THEN Content(pieces)
    ELSE IF url.google THEN Message(GoogleMsg)
    ELSE Message(CouldNotMsg)

\* The requests of get_full_text: the response that is parsed, after the
\* second request a Google News page leads to (r2), with the usage counters
\* then; failed when a request or the tracker raises.  No status is looked
\* at: there is no raise_for_status().
Resolve(u, url, r1, r2, tf) ==
    LET ok(r, v) == [failed |-> FALSE, page |-> r.page, usage |-> v]
        fail == [failed |-> TRUE, page |-> Html(NoEl, NoEl, <<>>, <<>>), usage |-> u]
    IN  IF ~Answered(r1) THEN fail
        ELSE IF ~url.google \/ r1.redirect = "none" THEN ok(r1, u)
        ELSE IF ~Answered(r2) THEN fail
        ELSE IF r1.redirect = "js" THEN ok(r2, u)
        ELSE IF tf = "rx" THEN fail
        ELSE ok(r2, AddRx(u, r2.size))

\* get_full_text of news_manager.py, the module the News Reader page imports
GetFullTextTop(u, url, r1, r2, tf) ==
    LET res == Resolve(u, url, r1, r2, tf) IN
    IF res.failed THEN [usage |-> u, raised |-> FALSE, ret |-> Message(FetchErrMsg)]
    ELSE [usage |-> res.usage, raised |-> FALSE,
          ret |-> Finish(url, StrategiesTop(res.page))]

\* get_full_text of modules/news_manager.py; the whole body is in one try,
\* "except Exception" returns the text with the error.
GetFullText(u, url, r1, r2, tf) ==
    LET res == Resolve(u, url, r1, r2, tf) IN
    IF res.failed THEN [usage |-> u, raised |-> FALSE, ret |-> Message(FetchErrMsg)]
    ELSE [usage |-> res.usage, raised |-> FALSE,
          ret |-> Finish(url, Strategies(res.page))]

\* An entry of the parsed feed: a FeedParserDict with the keys it has.
FeedLimit == 10
AttrErr == "raise AttributeError"

\* A feed response: status, length, and the entries feedparser.parse finds
\* in the content (none in a document that is no feed).
FeedResponse(status, size, entries) ==
    [kind |-> "http", status |-> status, size |-> size, entries |-> entries]

KnownSource(source) == source \in Sources

\* "'published': entry.get('published', datetime.now().strftime(...))"
Published_At(e, t) == IF "published" \in DOMAIN e THEN e.published ELSE <<"now", t>>

\* fetch_feeds: the request, raise_for_status, the tracker and the parse are
\* in the try ("except Exception: return []"); the loop over
\* feed.entries[:10] comes after it, and entry.title / entry.link raise
\* AttributeError on an entry without that key.
FetchFeedsCall(u, source, r, tf, t) ==
    LET none(v) == [usage |-> v, raised |-> FALSE, err |-> "", ret |-> <<>>] IN
    IF ~KnownSource(source) THEN none(u)
    ELSE IF ~Answered(r) THEN none(u)
    ELSE IF r.status >= 400 THEN none(u)
    ELSE IF tf = "rx" THEN none(u)
    ELSE LET top == SubSeq(r.entries, 1, IF Len(r.entries) > FeedLimit
                                         THEN FeedLimit ELSE Len(r.entries))
             v == AddRx(u, r.size)
         IN IF \E i \in 1..Len(top) : ~({"title", "link"} \subseteq DOMAIN top[i])
            THEN [usage |-> v, raised |-> TRUE, err |-> AttrErr, ret |-> <<>>]
            ELSE [usage |-> v, raised |-> FALSE, err |-> "",
                  ret |-> [i \in 1..Len(top) |->
                             [title |-> top[i].title, link |-> top[i].link,
                              published |-> Published_At(top[i], t),
                              source |-> source]]]

---------------------------------------------------------------------------
(* SpecFetch: fetch_feeds and get_full_text called directly *)

LongA == Para(1, MinParaLen + 1)
LongB == Para(2, 3 * MinParaLen)
ShortA == Para(3, MinParaLen)
ShortB == Para(4, 12)

\* Synthetic documents: a marked article body next to other paragraphs, an
\* <article> next to other paragraphs, both, content divs, paragraphs only
\* (long, short, mixed), nothing.
MarkerAndParas == Html(El(<<LongA, ShortA>>), NoEl, <<>>, <<LongA, ShortA, LongB>>)
ArticleAndParas == Html(NoEl, El(<<ShortB, LongB>>), <<>>, <<LongA, ShortB, LongB>>)
MarkerInArticle == Html(El(<<LongA>>), El(<<LongA, LongB>>), <<>>, <<LongA, LongB>>)
ContentDivs == Html(NoEl, NoEl, <<El(<<LongA>>), El(<<ShortA>>)>>, <<LongA, ShortA, LongB>>)
OnlyLong == Html(NoEl, NoEl, <<>>, <<LongA, LongB>>)
OnlyShort == Html(NoEl, NoEl, <<>>, <<ShortA, ShortB>>)
Mixed == Html(NoEl, NoEl, <<>>, <<ShortA, LongB, ShortB, LongA>>)
Blank == Html(NoEl, NoEl, <<>>, <<>>)

Pages == {MarkerAndParas, ArticleAndParas, MarkerInArticle, ContentDivs,
          OnlyLong, OnlyShort, Mixed, Blank}

PlainUrl == Url(1, FALSE)
GoogleUrl == Url(2, TRUE)

\* First responses: none, a document, an error status with its error page,
\* and for a Google News URL the bare page that redirects.
FirstResponses(url) ==
    NoAnswers \cup {Web(StatusOk, 50, pg, "none") : pg \in Pages}
              \cup {Web(404, 20, OnlyShort, "none"), Web(500, 30, OnlyLong, "none")}
              \cup (IF url.google
                    THEN {Web(StatusOk, 9, Blank, rd) : rd \in {"js", "anchor"}}
                    ELSE {})

SecondResponses == {NoResponse("timeout"), Web(StatusOk, 60, MarkerAndParas, "none"),
                    Web(StatusOk, 20, OnlyShort, "none")}

NoSecond == NoResponse("unused")

\* Feed entries: complete, without published, without title, without link.
Entry(i) == [title |-> <<"title", i>>, link |-> i, published |-> <<"date", i>>]
Undated(i) == [title |-> <<"title", i>>, link |-> i]
Untitled(i) == [link |-> i, published |-> <<"date", i>>]
Unlinked(i) == [title |-> <<"title", i>>, published |-> <<"date", i>>]

FeedResponses ==
    NoAnswers \cup
    {FeedResponse(StatusOk, 70, <<Entry(1), Undated(2)>>),
     FeedResponse(StatusOk, 90, [i \in 1..(FeedLimit + 1) |-> Entry(i)]),
     FeedResponse(StatusOk, 90, [i \in 1..(FeedLimit + 1) |->
                                   IF i > FeedLimit THEN Untitled(i) ELSE Entry(i)]),
     FeedResponse(StatusOk, 40, <<Entry(1), Untitled(2)>>),
     FeedResponse(StatusOk, 40, <<Unlinked(1)>>),
     FeedResponse(StatusOk, 9, <<>>),
     FeedResponse(404, 9, <<>>),
     FeedResponse(503, 70, <<Entry(1)>>)}

InitFetch ==
    /\ now = 0
    /\ cache = {}
    /\ news = {}
    /\ usage = NoUsage
    /\ file = NoFile
    /\ last = NoCall
    /\ calls = 0
    /\ SessionIdle

\* One call fetch_feeds(source_name).
FeedCall ==
    /\ calls < MaxCalls
    /\ \E source \in Sources \cup {NoSource}, r \in FeedResponses,
          tf \in {"none", "rx"} :
         LET o == FetchFeedsCall(usage, source, r, tf, now)
             asked == KnownSource(source)
             got == asked /\ Answered(r) /\ r.status < 400
         IN /\ usage' = o.usage
            /\ last' = [op |-> "feeds", source |-> source,
                        reply |-> IF asked THEN r ELSE NoSecond,
                        tracker |-> IF got THEN tf ELSE "none",
                        before |-> usage,
                        out |-> [raised |-> o.raised, err |-> o.err, ret |-> o.ret]]
    /\ calls' = calls + 1
    /\ LlmFrame

\* One call get_full_text(url), of either module.
TextCall ==
    /\ calls < MaxCalls
    /\ \E top \in BOOLEAN, url \in {PlainUrl, GoogleUrl} :
       \E r1 \in FirstResponses(url), r2 \in SecondResponses, tf \in {"none", "rx"} :
         LET o == IF top THEN GetFullTextTop(usage, url, r1, r2, tf)
                  ELSE GetFullText(usage, url, r1, r2, tf)
             again == Answered(r1) /\ url.google /\ r1.redirect # "none"
             tracked == again /\ r1.redirect = "anchor" /\ Answered(r2)
         IN /\ usage' = o.usage
            /\ last' = [op |-> "text", top |-> top, url |-> url, reply |-> r1,
                        second |-> IF again THEN r2 ELSE NoSecond,
                        tracker |-> IF tracked THEN tf ELSE "none",
                        before |-> usage,
                        out |-> [raised |-> o.raised, ret |-> o.ret]]
    /\ calls' = calls + 1
    /\ LlmFrame

NextFetch == FeedCall \/ TextCall

SpecFetch == InitFetch /\ [][NextFetch]_vars

---------------------------------------------------------------------------
(* NewsDatabase.save_article and NewsDatabase.get_saved_articles *)

\* The dict the page passes to save_article.
Article(link, title, published, summary, content, source, comment) ==
    [link |-> link, title |-> title, published |-> published,
     summary |-> summary, content |-> content, source |-> source,
     comment |-> comment]

\* One row of tb_news (the AUTO_INCREMENT id only names the row).
NewsRow(a, t) ==
    [link |-> a.link, title |-> a.title, published_date |-> a.published,
     summary |-> a.summary, content |-> a.content, source |-> a.source,
     comment |-> a.comment, created_at |-> t]

SavedFor(n, link) == {r \in n : r.link = link}

\* An INSERT IGNORE: a stored link keeps its row.
ArticleUpsert_KeepsStored(n, a, t) ==
    IF SavedFor(n, a.link) = {} THEN n \cup {NewsRow(a, t)} ELSE n

\* INSERT INTO tb_news ... ON DUPLICATE KEY UPDATE title=, published_date=,
\* summary=, content=, source=, comment=, created_at=NOW() with UNIQUE KEY
\* unique_link (link).
ArticleUpsert(n, a, t) ==
    IF SavedFor(n, a.link) = {}
    THEN n \cup {NewsRow(a, t)}
    ELSE {IF r.link = a.link
          THEN [r EXCEPT !.title = a.title, !.published_date = a.published,
                         !.summary = a.summary, !.content = a.content,
                         !.source = a.source, !.comment = a.comment,
                         !.created_at = t]
          ELSE r : r \in n}

ArticleFaults == {"none", "connect", "execute", "noconfig"}

\* save_article: get_connection before the try; in the try the upsert and
\* the commit, "except mysql.connector.Error: return False", and a finally
\* that closes cursor and connection.  open: connections left open.
SaveArticle(n, a, t, fault) ==
    CASE Raised(GetConnection(fault)) ->
            [news |-> n, raised |-> TRUE, ret |-> FALSE, open |-> 0]
      [] fault = "connect" -> [news |-> n, raised |-> FALSE, ret |-> FALSE, open |-> 0]
      [] fault = "execute" -> [news |-> n, raised |-> FALSE, ret |-> FALSE, open |-> 0]
      [] OTHER -> [news |-> ArticleUpsert(n, a, t), raised |-> FALSE,
                   ret |-> TRUE, open |-> 0]

ListFaults == {"none", "connect", "query", "noconfig"}

\* SELECT * FROM tb_news ORDER BY created_at DESC: the orders the server may
\* return the rows in (rows of one second in any order).
ByCreatedDesc(n) ==
    {q \in [1..Cardinality(n) -> n] :
        /\ \A i, j \in 1..Cardinality(n) : i # j => q[i] # q[j]
        /\ \A i, j \in 1..Cardinality(n) : i < j => q[i].created_at >= q[j].created_at}

\* get_saved_articles: get_connection before the try, [] without a
\* connection; the try has a finally that closes the connection and no
\* except, so what cursor.execute raises leaves the function.
GetSavedArticles(n, fault) ==
    CASE Raised(GetConnection(fault)) ->
            {[raised |-> TRUE, err |-> GetConnection(fault), ret |-> <<>>, open |-> 0]}
      [] fault = "connect" -> {[raised |-> FALSE, err |-> "", ret |-> <<>>, open |-> 0]}
      [] fault = "query" -> {[raised |-> TRUE, err |-> QueryErr, ret |-> <<>>, open |-> 0]}
      [] OTHER -> {[raised |-> FALSE, err |-> "", ret |-> q, open |-> 0]
                     : q \in ByCreatedDesc(n)}

---------------------------------------------------------------------------
(* SpecStore: the article store called directly, next to generate_summary *)

StoreLinks == {1, 2}

\* What the Save button passes for a link: the item as fetched, without
\* summary or comment, and the item with its summary and a comment.
Fresh(l) == Article(l, <<"title", l>>, <<"date", l>>, "", "", DefaultSource, "")
Noted(l) == Article(l, <<"title", l, "edited">>, <<"date", l, "edited">>, "sumA",
                    "text", "GeekNews", "note")

StoreArticles == {Fresh(l) : l \in StoreLinks} \cup {Noted(l) : l \in StoreLinks}

InitStore ==
    /\ now = 0
    /\ cache \in {{}, {OldRow(1)}}
    /\ news \in {{}, {NewsRow(Fresh(1), 0)}}
    /\ usage = NoUsage
    /\ file = NoFile
    /\ last = NoCall
    /\ calls = 0
    /\ SessionIdle

\* One call save_article(article).
ArticleSave ==
    /\ calls < MaxCalls
    /\ \E a \in StoreArticles, fault \in ArticleFaults :
         LET o == SaveArticle(news, a, now, fault) IN
         /\ news' = o.news
         /\ last' = [op |-> "save", article |-> a, fault |-> fault, at |-> now,
                     before |-> news,
                     out |-> [raised |-> o.raised, ret |-> o.ret, open |-> o.open]]
    /\ calls' = calls + 1
    /\ UNCHANGED <<now, cache, usage, file, ss, widgets, queue, workers, script>>

\* One call get_saved_articles().
ArticleList ==
    /\ calls < MaxCalls
    /\ \E fault \in ListFaults :
       \E o \in GetSavedArticles(news, fault) :
         last' = [op |-> "list", fault |-> fault, at |-> now, before |-> news,
                  out |-> [raised |-> o.raised, ret |-> o.ret, open |-> o.open]]
    /\ calls' = calls + 1
    /\ UNCHANGED <<now, cache, news, usage, file, ss, widgets, queue, workers, script>>

\* One call generate_summary(text, model, link) for a link of the store.
StoreGen ==
    /\ calls < MaxCalls
    /\ \E link \in StoreLinks, force \in BOOLEAN, reply \in {"sumA", ErrReply},
          saveFault \in {"none", "connect"} :
       \E o \in GenerateSummary(cache, Text(MinTextLen), "m1", link, force, now,
                                "none", reply, saveFault) :
         /\ cache' = o.cache
         /\ last' = [op |-> "gen", link |-> link, at |-> now, before |-> news,
                     out |-> [raised |-> FALSE, ret |-> o.ret, open |-> 0]]
    /\ calls' = calls + 1
    /\ UNCHANGED <<now, news, usage, file, ss, widgets, queue, workers, script>>

NextStore == ArticleSave \/ ArticleList \/ StoreGen \/ Tick

SpecStore == InitStore /\ [][NextStore]_vars

---------------------------------------------------------------------------
(* pc_control.py: PCControl, one render_ui fragment per device of
   Dashboard.py.  Every browser session runs the script in a thread of its
   own; pc_state.json is shared by all of them.  workers holds the script
   threads, ss and widgets what each session remembers and shows per device,
   calls counts the button presses. *)

MaxClock == 6               \* idle time passes up to MaxClock

BootTimeout == 120          \* "elif elapsed > 120"
ShutdownTimeout == 10       \* "if elapsed > 10"
ActiveInterval == 2         \* "check_interval = 2 if current_action else 5"
IdleInterval == 5

NoAction == [action |-> None, start_time |-> 0]

\* PCControl._get_state: the entry of the device, the default when the file
\* is missing or unreadable or has no entry; an entry of the older format
\* is converted.
GetState(f, name) ==
    IF ~f.exists \/ ~f.ok THEN NoAction
    ELSE LET e == f.data[name] IN
         CASE e.kind = "absent" -> NoAction
           [] e.kind = "legacy" ->
                [action |-> IF e.booting THEN "booting" ELSE None,
                 start_time |-> e.boot_start_time]
           [] OTHER -> [action |-> e.action, start_time |-> e.start_time]

\* _update_state, lines 71-77: "data = {}", replaced by the content of the
\* file when it exists and json.load reads it.
ReadData(f) == IF f.exists /\ f.ok THEN f.data ELSE NoEntries

\* _update_state, lines 79-85: "data[self.name] = {...}; json.dump(data, f)"
WriteData(data, name, action, start_time) ==
    Json_File([data EXCEPT ![name] = State(action, start_time)])

\* st.session_state[key_last_check], [key_last_status] as first set.
NotSeen == [last_check |-> 0, last_status |-> FALSE]

CheckInterval(action) == IF action # None THEN ActiveInterval ELSE IdleInterval

\* Step 4 of render_ui: ping when the interval has passed, else the status
\* remembered.
Status(s, action, t, ping) ==
    IF t - s.last_check >= CheckInterval(action)
    THEN [last_check |-> t, last_status |-> ping]
    ELSE s

\* A shutdown that is cleared only once the host has stopped answering.
Ends_ShutdownWaitsOffline(st, online, t) ==
    \/ st.action = "booting" /\ (online \/ t - st.start_time > BootTimeout)
    \/ st.action = "shutdown" /\ ~online /\ t - st.start_time > ShutdownTimeout

\* Step 5 of render_ui: the pending action is over.
Ends(st, online, t) ==
    \/ st.action = "booting" /\ (online \/ t - st.start_time > BootTimeout)
    \/ st.action = "shutdown" /\ t - st.start_time > ShutdownTimeout

\* A script thread between two runs of render_ui.
IdleThread ==
    [pc |-> "idle", name |-> "", press |-> "none", st |-> NoAction, t |-> 0,
     data |-> NoEntries, put |-> NoAction]

\* The files a deployment can hold at the start: none, one that does not
\* parse, entries of the older format, an action pending since the start.
StartFiles ==
    {NoFile, Unreadable,
     Json_File([d \in Devices |-> IF d = "pc1" THEN Legacy(TRUE, 0) ELSE Legacy(FALSE, 0)]),
     Json_File([d \in Devices |-> IF d = "pc1" THEN State("shutdown", IdleInterval)
                                               ELSE Absent])}

\* n sessions, nothing rendered yet; the clock is far from 0.
InitPC(n) ==
    /\ now = IdleInterval
    /\ cache = {}
    /\ news = {}
    /\ usage = NoUsage
    /\ file \in StartFiles
    /\ last = NoCall
    /\ calls = 0
    /\ ss = [k \in 1..n |-> [d \in Devices |-> NotSeen]]
    /\ widgets = [k \in 1..n |-> [d \in Devices |-> "nothing"]]
    /\ queue = <<>>
    /\ workers = [k \in 1..n |-> IdleThread]
    /\ script = "unused"

PcFrame == UNCHANGED <<cache, news, usage, queue, script>>

Pending(name) == GetState(file, name).action # None

\* A pending action of the device has not reached its timeout at time t /
\* is exactly at it.
Waiting(name, t) == Pending(name) /\ ~Ends(GetState(file, name), FALSE, t)
AtTimeout(name, t) == Waiting(name, t) /\ ~Waiting(name, t + 1)

\* The timeout of an action.
Timeout(action) == IF action = "shutdown" THEN ShutdownTimeout ELSE BootTimeout

\* Time passes: second by second up to MaxClock and across a timeout, and
\* by its timeout while a pending action waits for it.
Pass ==
    /\ \/ /\ now < MaxClock \/ \E name \in Devices : AtTimeout(name, now)
          /\ now' = now + 1
       \/ \E name \in Devices :
             /\ Waiting(name, now)
             /\ now' = now + Timeout(GetState(file, name).action)
    /\ UNCHANGED <<file, last, calls, ss, widgets, workers>>
    /\ PcFrame

\* Lines 98-110 of a run of the fragment of device name in session k:
\* "state = self._get_state()", "now = time.time()".
Load(k, name, press) ==
    /\ workers[k].pc = "idle"
    /\ workers' = [workers EXCEPT ![k] =
                      [IdleThread EXCEPT !.pc = "loaded", !.name = name,
                                         !.press = press,
                                         !.st = GetState(file, name), !.t = now]]
    /\ UNCHANGED <<now, file, last, ss, widgets>>
    /\ PcFrame

\* The run the fragment timer starts (run_every=2), or a rerun.
Poll(k, name) ==
    /\ Load(k, name, "none")
    /\ UNCHANGED calls

\* The run a button press starts: Power ON and Power OFF when the browser
\* shows them enabled, Reset Status when it shows it.
Press(k, name) ==
    /\ calls < MaxCalls
    /\ \E press \in {"on", "off", "reset"} :
          /\ widgets[k][name] = (IF press = "reset" THEN "busy" ELSE "idle")
          /\ Load(k, name, press)
    /\ calls' = calls + 1

\* Lines 112-214: the status check, the end of a pending action, the
\* buttons and the handler of the one pressed.  A run that is to write the
\* state goes on into _update_state (put); one that ends in st.rerun()
\* before the buttons leaves the browser as it was.
Decide(k) ==
    /\ workers[k].pc = "loaded"
    /\ \E ping \in BOOLEAN, sent \in BOOLEAN :
         LET w == workers[k]
             st == w.st
             seen == Status(ss[k][w.name], st.action, w.t, ping)
             online == seen.last_status
             idle == st.action = None
             did == CASE Ends(st, online, w.t) -> "clear"
                      [] idle /\ w.press = "on" -> IF sent THEN "on" ELSE "failed"
                      [] idle /\ w.press = "off" ->
                            IF ~online THEN "offline"
                            ELSE IF sent THEN "off" ELSE "failed"
                      [] ~idle /\ w.press = "reset" -> "reset"
                      [] OTHER -> "drawn"
             put == CASE did = "on" -> [action |-> "booting", start_time |-> now]
                      [] did = "off" -> [action |-> "shutdown", start_time |-> now]
                      [] OTHER -> NoAction
         IN /\ ss' = [ss EXCEPT ![k][w.name] =
                         IF did \in {"on", "off"}
                         THEN [seen EXCEPT !.last_check = 0] ELSE seen]
            /\ widgets' = IF did = "clear" THEN widgets
                          ELSE [widgets EXCEPT ![k][w.name] =
                                   IF idle THEN "idle" ELSE "busy"]
            /\ workers' = [workers EXCEPT ![k] =
                              IF did \in {"clear", "on", "off", "reset"}
                              THEN [w EXCEPT !.pc = "read", !.put = put]
                              ELSE IdleThread]
            /\ last' = [op |-> "render", by |-> k, name |-> w.name,
                        press |-> w.press, action |-> st.action,
                        elapsed |-> w.t - st.start_time, online |-> online,
                        did |-> did]
    /\ UNCHANGED <<now, file, calls>>
    /\ PcFrame

\* _update_state, lines 71-77: the file is read.
UpdRead(k) ==
    /\ workers[k].pc = "read"
    /\ workers' = [workers EXCEPT ![k].pc = "write", ![k].data = ReadData(file)]
    /\ UNCHANGED <<now, file, last, calls, ss, widgets>>
    /\ PcFrame

\* _update_state, lines 79-85: the entry is set in what was read and the
\* file is written; "st.rerun()" ends the run.
UpdWrite(k) ==
    /\ workers[k].pc = "write"
    /\ file' = WriteData(workers[k].data, workers[k].name,
                         workers[k].put.action, workers[k].put.start_time)
    /\ workers' = [workers EXCEPT ![k] = IdleThread]
    /\ last' = [op |-> "update", by |-> k, name |-> workers[k].name,
                before |-> file]
    /\ UNCHANGED <<now, calls, ss, widgets>>
    /\ PcFrame

\* The fragments followed: in the first session that of pc1, in a second
\* session those of both devices.
Watched(k) == IF k = 1 THEN {"pc1"} ELSE Devices

ThreadRun(k) ==
    \/ \E name \in Watched(k) : Poll(k, name) \/ Press(k, name)
    \/ Decide(k)
    \/ UpdRead(k)
    \/ UpdWrite(k)

NextPC == Pass \/ \E k \in 1..Len(workers) : ThreadRun(k)

\* One session.
SpecPower == InitPC(1) /\ [][NextPC]_vars

\* One session that stays open: the clock runs, the timer of each fragment
\* fires again and again, a run that has begun goes on to its end.  Presses
\* may or may not happen.
SpecPowerLive ==
    /\ SpecPower
    /\ WF_vars(Pass)
    /\ \A name \in Watched(1) : SF_vars(Poll(1, name))
    /\ WF_vars(Decide(1)) /\ WF_vars(UpdRead(1)) /\ WF_vars(UpdWrite(1))

\* Two sessions (two browsers) on the same state file within one second:
\* the runs of their scripts interleave, the clock stands.
NextShared == \E k \in 1..Len(workers) : ThreadRun(k)

SpecShared == InitPC(2) /\ [][NextShared]_vars

---------------------------------------------------------------------------
(* Claims about the cache API, checked under SpecCache *)

PutReturnedTrue == last.op = "put" /\ last.ret

\* C1: the table holds at most one row per link hash, and right after a
\* save_summary_to_cache(link, summary, model) that returned True the row of
\* that link carries this call's summary, model and time, so that
\* get_summary_from_cache(link) returns the summary written last.
C1_UpsertReadBack ==
    /\ \A r1, r2 \in cache : r1.link_hash = r2.link_hash => r1 = r2
    /\ PutReturnedTrue =>
          /\ RowsFor(cache, last.link) =
                {Row(last.link, last.summary, last.model, last.at)}
          /\ GetSummaryFromCache(cache, last.link, "none") = last.summary

\* The part of C1 that the code keeps: one row per link hash, always.
OneRowPerLinkHash ==
    \A r1, r2 \in cache : r1.link_hash = r2.link_hash => r1 = r2

\* C2: after a save_summary_to_cache that returned True the table holds at
\* most 100 rows, and when its cleanup deleted rows the survivors are the 100
\* most recently created: no deleted row is newer than a survivor, and the
\* row this call has just written is among the survivors.
C2_KeepsMostRecent ==
    PutReturnedTrue =>
        /\ Cardinality(cache) <= CacheKeep
        /\ last.deleted # {} =>
              /\ Cardinality(cache) = CacheKeep
              /\ \A d \in last.deleted, r \in cache : d.created_at <= r.created_at
              /\ RowsFor(cache, last.link) # {}

\* The part of C2 that the code keeps: the row count, and no deleted row
\* newer than a survivor.
AtMostKeepRows ==
    PutReturnedTrue =>
        /\ Cardinality(cache) <= CacheKeep
        /\ last.deleted # {} =>
              /\ Cardinality(cache) = CacheKeep
              /\ \A d \in last.deleted, r \in cache : d.created_at <= r.created_at

\* C22: get_summary_from_cache and save_summary_to_cache never raise: with
\* the connection refused, a query failing or no news_db block in the
\* configuration, get returns None and put returns False.
C22_CacheNeverRaises ==
    /\ last.op = "get" =>
          /\ ~Raised(last.ret)
          /\ last.fault \in {"connect", "query", "noconfig"} => last.ret = None
    /\ last.op = "put" =>
          /\ ~last.raised
          /\ last.fault \in {"connect", "execute", "count", "noconfig"} =>
                last.ret = FALSE

\* The part of C22 that the code keeps: a refused connection and a failing
\* query give None from get and False from put.
CacheFaultsCaught ==
    /\ (last.op = "get" /\ last.fault \in {"connect", "query"}) => last.ret = None
    /\ (last.op = "put" /\ last.fault \in {"connect", "execute", "count"}) =>
          last.ret = FALSE

\* C36: save_summary_to_cache returns False only when the call left the
\* table unchanged: a call that reports failure has neither inserted nor
\* updated the row of its link, also when the count or the cleanup failed.
C36_FalseMeansUnchanged ==
    [][(calls' = calls + 1 /\ last'.op = "put" /\ ~last'.ret /\ ~last'.raised) =>
           cache' = cache]_vars

\* What the code keeps: a call that returns False before or at the upsert
\* (no connection, the upsert raising) leaves the table unchanged, and a
\* call that returns False later has made exactly its upsert.
FalseBeforeCommitUnchanged ==
    [][(calls' = calls + 1 /\ last'.op = "put" /\ ~last'.ret /\ ~last'.raised) =>
           IF last'.fault \in {"connect", "execute"}
           THEN cache' = cache
           ELSE cache' = Upsert(cache, last'.link, last'.summary, last'.model, now)]_vars

---------------------------------------------------------------------------
(* Claims about the model client, checked under SpecLLM *)

\* The whole of generate_response went through: an answer without error
\* status, a JSON body, the tracker working.
GenerateSucceeded ==
    /\ last.op = "generate" /\ Answered(last.reply)
    /\ last.reply.status < 400 /\ last.reply.body.json
    /\ last.tracker = "none"

ResponseText(r) ==
    IF HasField(r.body, "response") THEN r.body.fields.response ELSE ""

\* C24: no operation of the client raises.  check_connection returns
\* (True, 'Connected') on status 200 and (False, message) on any other status
\* and without a response; get_models returns [] then; generate_response
\* returns the response field of the answer, '' without that field, and the
\* text embedding the error on any failure; get_gpu_info returns [] on a
\* non-zero exit code and on the timeout.
C24_ClientNeverRaises ==
    /\ last.op \in {"check", "models", "generate", "gpu"} => ~last.out.raised
    /\ last.op = "check" =>
          IF Answered(last.reply) /\ last.reply.status = StatusOk
          THEN last.out.ret = <<TRUE, [text |-> "Connected"]>>
          ELSE /\ last.out.ret[1] = FALSE
               /\ last.out.ret[2] =
                     IF Answered(last.reply)
                     THEN [text |-> "Status Code", code |-> last.reply.status]
                     ELSE [text |-> last.reply.kind]
    /\ (last.op = "models" /\ ~(Answered(last.reply) /\ last.reply.status = StatusOk)) =>
          last.out.ret = <<>>
    /\ last.op = "generate" =>
          IF GenerateSucceeded
          THEN last.out.ret = ResponseText(last.reply)
          ELSE last.out.ret = ErrReply
    /\ (last.op = "gpu" /\ (last.reply = SshTimeout \/ last.reply.rc # 0)) =>
          last.out.ret = <<>>

\* The service answers 200 with a body that is no JSON to get_models, the
\* second call of a process that has recorded no usage.
C24_Witness ==
    /\ last.op = "models" /\ Answered(last.reply)
    /\ last.reply.status = StatusOk /\ ~last.reply.body.json
    /\ last.out.ret = <<>>
    /\ calls = 2 /\ usage = NoUsage

\* C25: every generate_response call adds the size of its payload to the
\* sent bytes and the size of the response it received to the received
\* bytes, and when the service answered successfully the call returns the
\* generated text whether or not the tracker works.
C25_UsageRecorded ==
    last.op = "generate" =>
        /\ usage.tx = last.before.tx + PayloadLen(last.prompt, last.model)
        /\ Answered(last.reply) => usage.rx = last.before.rx + last.reply.size
        /\ (Answered(last.reply) /\ last.reply.status = StatusOk
              /\ last.reply.body.json) =>
              last.out.ret = ResponseText(last.reply)

\* The part of C25 that the code keeps: a call that went through has
\* recorded both sizes.
UsageRecordedOnSuccess ==
    GenerateSucceeded =>
        /\ usage.tx = last.before.tx + PayloadLen(last.prompt, last.model)
        /\ usage.rx = last.before.rx + last.reply.size

---------------------------------------------------------------------------
(* Claims about the feed fetcher and the extractor, checked under SpecFetch *)

\* C26: fetch_feeds and get_full_text never raise: without a response
\* (timeout, connection error), with an HTTP error status, and for
\* fetch_feeds with an entry among the first ten that has no title or no
\* link, fetch_feeds returns [] and get_full_text one of its messages.
C26_FetchNeverRaises ==
    /\ last.op = "feeds" =>
          /\ ~last.out.raised
          /\ (\/ ~Answered(last.reply)
              \/ last.reply.status >= 400
              \/ \E i \in 1..Len(last.reply.entries) :
                    /\ i <= FeedLimit
                    /\ ~({"title", "link"} \subseteq DOMAIN last.reply.entries[i]))
             => last.out.ret = <<>>
    /\ last.op = "text" =>
          /\ ~last.out.raised
          /\ (\/ ~Answered(last.reply)
              \/ last.reply.status >= 400
              \/ (last.second # NoSecond /\ ~Answered(last.second)))
             => last.out.ret.kind = "message"

\* The part of C26 that the code keeps: whatever raises inside the two try
\* blocks (no response, the error status of a feed, the tracker) gives []
\* and the message with the error.
FetchFailuresCaught ==
    /\ (last.op = "feeds" /\ last.source \in Sources
          /\ (~Answered(last.reply) \/ last.reply.status >= 400 \/ last.tracker = "rx"))
       => ~last.out.raised /\ last.out.ret = <<>>
    /\ last.op = "text" =>
          /\ ~last.out.raised
          /\ (\/ ~Answered(last.reply)
              \/ (last.second # NoSecond /\ ~Answered(last.second))
              \/ last.tracker = "rx")
             => last.out.ret = Message(FetchErrMsg)

\* The document the last get_full_text call has parsed.
ParsedPage == IF last.second # NoSecond THEN last.second.page ELSE last.reply.page

Extracted == last.op = "text" /\ last.out.ret # Message(FetchErrMsg)

\* The result the strategies in their order give on the parsed document.
StrategyOrder ==
    LET pg == ParsedPage
        long == SelectSeq(pg.paras, IsLong)
        nothing == Message(IF last.url.google THEN GoogleMsg ELSE CouldNotMsg)
        text(pieces) == IF TextEmpty(pieces) THEN nothing ELSE Content(pieces)
    IN  IF pg.body.present THEN last.out.ret = text(<<pg.body.parts>>)
        ELSE IF pg.article.present THEN last.out.ret = text(<<pg.article.parts>>)
        ELSE IF pg.divs # <<>>
        THEN last.out.ret = text([i \in 1..Len(pg.divs) |-> pg.divs[i].parts])
        ELSE IF long # <<>>
        THEN /\ last.out.ret.kind = "content"
             /\ Len(last.out.ret.pieces) = Len(long)
             /\ \A i \in 1..Len(long) : last.out.ret.pieces[i] = <<long[i]>>
        ELSE last.out.ret = nothing

\* C30: get_full_text gives the text of the itemprop=articleBody element,
\* else of the <article>, else of the content-class divs, else the
\* paragraphs longer than 40 joined by blank lines: the marked content alone
\* on a document that also has other paragraphs, the long paragraphs on a
\* document of paragraphs only, the could-not-extract message when all
\* paragraphs are short.
C30_StrategyOrder == Extracted => StrategyOrder

\* The part of C30 that the code keeps: get_full_text of
\* modules/news_manager.py follows this order.
StrategyOrderInModules == (Extracted /\ ~last.top) => StrategyOrder

---------------------------------------------------------------------------
(* Claims about the article store, checked under SpecStore *)

\* C27: with the store unreachable or a query failing save_article returns
\* False and get_saved_articles returns [], neither raises, and each has
\* closed its connection.
C27_StoreNeverRaises ==
    /\ (last.op = "save" /\ last.fault \in {"connect", "execute"}) =>
          ~last.out.raised /\ last.out.ret = FALSE /\ last.out.open = 0
    /\ (last.op = "list" /\ last.fault \in {"connect", "query"}) =>
          ~last.out.raised /\ last.out.ret = <<>> /\ last.out.open = 0

\* The part of C27 that the code keeps: save_article returns False on both
\* failures, get_saved_articles returns [] without a connection, and no
\* connection stays open.
ArticleFaultsCaught ==
    /\ (last.op = "save" /\ last.fault \in {"connect", "execute"}) =>
          ~last.out.raised /\ last.out.ret = FALSE
    /\ (last.op = "list" /\ last.fault = "connect") =>
          ~last.out.raised /\ last.out.ret = <<>>
    /\ last.op \in {"save", "list"} => last.out.open = 0

\* C29: tb_news holds at most one row per link; a save_article that
\* returned True leaves for its link the one row made of the article's
\* title, published date, summary, content, source and comment with
\* created_at the time of this call, and every other row as it was; and
\* only such a call changes the table: generate_summary with its cache read
\* and write never does.
C29_ArticleUpsert ==
    /\ [](/\ \A r1, r2 \in news : r1.link = r2.link => r1 = r2
          /\ (last.op = "save" /\ last.out.ret /\ ~last.out.raised) =>
                /\ SavedFor(news, last.article.link) = {NewsRow(last.article, last.at)}
                /\ news \ SavedFor(news, last.article.link) =
                      last.before \ SavedFor(last.before, last.article.link))
    /\ [][news' # news => (last'.op = "save" /\ last'.out.ret)]_vars

\* Link 1, saved as fetched in second 0, has been saved again in second 1
\* with summary and comment.
C29_Witness ==
    /\ last.op = "save" /\ last.out.ret /\ last.at = 1
    /\ last.before = {NewsRow(Fresh(1), 0)}
    /\ news = {NewsRow(Noted(1), 1)}

---------------------------------------------------------------------------
(* Claims about generate_summary, checked under SpecSum *)

GenCalled == last.op = "gen"

\* The call looked the link up and the store answered with a row.
CacheHit ==
    /\ GenCalled /\ ~last.force /\ LinkGiven(last.link)
    /\ last.getFault = "none"
    /\ RowsFor(last.before, last.link) # {}

\* C3: generate_summary with force_refresh=False and a non-empty link whose
\* cache entry the lookup finds returns exactly the cached summary, makes no
\* model call and writes nothing (the table, created_at included, is as
\* before), whatever the text is.
C3_HitShortCircuits ==
    CacheHit =>
        /\ last.ret = GetSummaryFromCache(last.before, last.link, "none")
        /\ ~last.asked
        /\ ~last.saved
        /\ cache = last.before

\* A hit on a call whose text alone would have been rejected or summarized.
C3_Witness ==
    /\ CacheHit /\ last.ret = "old"
    /\ last.text = Text(MinTextLen)

\* C4: whenever generate_summary returns a non-empty model result for a
\* non-empty link, save_summary_to_cache(link, result, model) was called
\* before the return; with link None or '' the cache is neither read nor
\* written.
C4_WriteThrough ==
    GenCalled =>
        /\ (last.asked /\ Truthy(last.ret) /\ LinkGiven(last.link)) =>
              /\ last.saved
              /\ last.saveArgs = <<last.link, last.ret, last.model>>
        /\ ~LinkGiven(last.link) =>
              /\ ~last.read
              /\ ~last.saved
              /\ cache = last.before

C4_Witness ==
    /\ GenCalled /\ last.asked /\ last.ret = "sumA" /\ last.link = 1
    /\ last.saved /\ last.saveRet
    /\ RowsFor(cache, 1) = {Row(1, "sumA", last.model, last.at)}

\* C5 as stated: a text that is absent or shorter than 100 characters always
\* gives the fixed string, without a model call and without a cache write.
C5_ShortTextAlwaysFixed ==
    (GenCalled /\ TooShort(last.text)) =>
        /\ last.ret = TooShortMsg
        /\ ~last.asked
        /\ ~last.saved

\* C5 amended: with a text that is absent or shorter than 100 characters the
\* model is never invoked and nothing is written; the result is the fixed
\* string unless the cache lookup (non-empty link, force_refresh=False) found
\* a non-empty summary, which is then returned instead; a text of exactly 100
\* characters is not rejected: without such a hit the model is invoked.
C5_ShortTextGuard ==
    GenCalled =>
        /\ TooShort(last.text) =>
              /\ ~last.asked
              /\ ~last.saved
              /\ cache = last.before
              /\ IF CacheHit THEN last.ret = GetSummaryFromCache(last.before, last.link, "none")
                             ELSE last.ret = TooShortMsg
        /\ (last.text = Text(MinTextLen) /\ ~CacheHit) => last.asked

C5_Witness ==
    /\ GenCalled /\ last.text = Text(MinTextLen - 1) /\ last.link = 1
    /\ ~CacheHit /\ last.ret = TooShortMsg

\* C6: generate_summary with force_refresh=True never reads the cache; with a
\* text of at least 100 characters it always invokes the model, also when the
\* link has a cache entry; and when the write of a non-empty result is
\* reported successful the entry of the link carries that result, the model
\* and the time of the write.
C6_ForceRefresh ==
    (GenCalled /\ last.force) =>
        /\ ~last.read
        /\ ~TooShort(last.text) => last.asked
        /\ (last.asked /\ Truthy(last.ret) /\ LinkGiven(last.link) /\ last.saveRet) =>
              RowsFor(cache, last.link) =
                  {Row(last.link, last.ret, last.model, last.at)}

\* A forced call that replaced an existing entry.
C6_Witness ==
    /\ GenCalled /\ last.force /\ last.link = 1
    /\ OldRow(1) \in last.before
    /\ last.asked /\ last.saveRet
    /\ RowsFor(cache, 1) = {Row(1, "sumB", last.model, last.at)}

\* C23: with the store unreachable or its queries failing generate_summary
\* completes as on a miss: a lookup that fails is followed by the model call
\* on a text of 100 characters or more (by the fixed result on a shorter
\* one), and the model's reply is what the call returns, also when the
\* write-through of that reply returned False.
C23_StoreDownStillSummarizes ==
    GenCalled =>
        /\ (last.read /\ last.getFault # "none") =>
              IF TooShort(last.text)
              THEN ~last.asked /\ last.ret = TooShortMsg
              ELSE last.asked /\ last.ret = last.reply
        /\ (last.saved /\ ~last.saveRet) =>
              /\ last.asked /\ last.ret = last.reply /\ Truthy(last.ret)
              /\ last.saveArgs = <<last.link, last.reply, last.model>>

\* A link with a cache entry, the store unreachable at the lookup and at
\* the write-through: the model's summary is returned, the entry is as it
\* was.
C23_Witness ==
    /\ GenCalled /\ last.link = 1 /\ last.before = {OldRow(1)}
    /\ last.read /\ last.getFault = "connect"
    /\ last.saved /\ ~last.saveRet
    /\ last.ret = "sumA" /\ cache = {OldRow(1)}

\* C31: the cache never stores a failed generation: a call in which the model
\* client returned its error result ('Error generating response: ...') makes
\* no write and leaves the table as it was, so no row of the table carries
\* the error string as its summary.
C31_NoErrorCached ==
    /\ \A r \in cache : r.summary # ErrReply
    /\ (GenCalled /\ last.asked /\ last.reply = ErrReply) =>
          /\ ~last.saved
          /\ cache = last.before

\* What the code keeps: nothing is written without a model call, and the
\* empty reply and the fixed short-text result are never written.
OnlyModelRepliesCached ==
    GenCalled =>
        /\ ~last.asked => (~last.saved /\ cache = last.before)
        /\ ~Truthy(last.ret) => (~last.saved /\ cache = last.before)
        /\ \A r \in cache : r.summary \notin {"", None, TooShortMsg}

---------------------------------------------------------------------------
(* Claims about the worker threads of a session, checked under Spec *)

Alive == {w \in 1..Len(workers) : IsAlive(workers[w])}

Started == Len(workers') > Len(workers)

\* C7: at every moment at most one auto-summary worker thread is alive.
\* Fails: a source switch sets the old worker's stop event and, in the same
\* script run, starts a new worker while the old one is still in its item.
C7_AtMostOneAlive == Cardinality(Alive) <= 1

\* What the code does keep: every worker but the newest is stopped or dead.
OnlyNewestUnstopped ==
    \A w \in 1..Len(workers) :
        w < Len(workers) => workers[w].stop \/ ~IsAlive(workers[w])

\* C8: a worker is started only when the session's previous worker is not
\* alive or its stop event is set; the script step of a source switch, and
\* the one of a run with auto-summary off, set the existing worker's stop
\* event and start no worker.
C8_StartAfterStop ==
    [][/\ Started =>
            /\ \/ ss.auto_thread = 0
               \/ ~IsAlive(workers[ss.auto_thread])
               \/ workers[ss.auto_thread].stop
            /\ \A w \in 1..Len(workers) : workers[w].stop \/ ~IsAlive(workers[w])
       /\ (/\ script' # script
           /\ ss.stop_event # 0
           /\ \/ script = "source" /\ ss.current_source # widgets.source
              \/ script = "thread" /\ ~ss.auto_summary_enabled)
          => ~Started /\ workers'[ss.stop_event].stop]_vars

C8_Witness ==
    /\ Len(workers) = 2
    /\ IsAlive(workers[1]) /\ workers[1].stop
    /\ ss.current_source = "GeekNews"
    /\ ss.auto_thread = 2

\* C10: a worker is started only by a step taken where auto-summary is
\* enabled, a model is selected and some item of the current feed has no
\* entry in the session's summaries.
C10_StartOnlyWhenNeeded ==
    [][Started =>
          /\ ss.auto_summary_enabled
          /\ Truthy(ss.selected_model)
          /\ \E i \in 1..Len(ss.news_items) : ss.summaries[ss.news_items[i]] = None
          /\ workers'[Len(workers')].items = ItemsToProcess(ss.news_items, ss.summaries)
          /\ workers'[Len(workers')].model = ss.selected_model]_vars

\* A worker started on the part of the feed the cache prefetch left open.
C10_Witness ==
    /\ Len(workers) = 1
    /\ workers[1].items = <<2>>
    /\ ss.summaries[1] = "old"
    /\ ss.auto_summary_enabled

---------------------------------------------------------------------------
(* Claims about one worker and its stop event, checked under SpecWorker *)

BetweenItems == {"gpu", "check", "sleep", "done"}

IsPrefix(p, q) == Len(p) <= Len(q) /\ SubSeq(q, 1, Len(p)) = p

\* C9: once its stop event is set a worker starts no further item: between
\* items it publishes nothing more and its check ends it; inside an item it
\* publishes at most that item's result and is then between items.  So it
\* publishes at most once after the stop, and stopped after its first
\* result it publishes at most 2 and never a whole backlog of 3 or more.
\* No step of a worker takes a result off the queue.
C9_StopHonoured ==
    /\ [](\A k \in 1..Len(workers) :
            LET w == workers[k] IN
            w.stop =>
               /\ w.late <= 1
               /\ (w.published - w.late = 1 /\ Len(w.items) >= 3) =>
                     w.published <= 2 /\ w.published < Len(w.items))
    /\ [][\A k \in 1..Len(workers) :
            LET w == workers[k]
                v == workers'[k]
            IN /\ v # w => IsPrefix(queue, queue')
               /\ w.stop =>
                    /\ v.stop
                    /\ v.published <= w.published + 1
                    /\ v.published > w.published =>
                          v.pc \in BetweenItems /\ queue' # queue
                    /\ w.pc \in BetweenItems =>
                          v.pc \in BetweenItems /\ v.published = w.published
                    /\ w.pc = "check" => v.pc \in {"check", "done"}
                    /\ v.idx > w.idx => v.pc = "check"]_vars

\* Stopped inside its second item, after one result, the worker published
\* that second result and ended with the rest of its backlog undone.
C9_Witness ==
    /\ workers[1].stop
    /\ workers[1].late = 1
    /\ workers[1].published = 2
    /\ workers[1].pc = "done"
    /\ workers[1].idx = 3
    /\ Len(workers[1].items) = BacklogLen

---------------------------------------------------------------------------
(* Claims about what a worker processes and publishes *)

\* p is q with some elements left out.
RECURSIVE IsSubSeqOf(_, _)
IsSubSeqOf(p, q) ==
    IF p = <<>> THEN TRUE
    ELSE IF q = <<>> THEN FALSE
    ELSE IF Head(p) = Head(q) THEN IsSubSeqOf(Tail(p), Tail(q))
    ELSE IsSubSeqOf(p, Tail(q))

\* The links of the pairs worker record w has put.
OutLinks(w) == [i \in 1..Len(w.out) |-> w.out[i][1]]

\* The first n elements of q, all of q when it has fewer.
FirstN(q, n) == SubSeq(q, 1, IF n > Len(q) THEN Len(q) ELSE n)

\* The worker whose position changes in this step.
Steps(k) == k \in 1..Len(workers) /\ workers'[k].pc # workers[k].pc

\* C11: the backlog of a worker is the feed items without a summary at its
\* start, in feed order; it goes through them one by one in that order, puts
\* at most one pair per item, each for the item it is at, and so never a
\* link outside its backlog.
C11_BacklogSnapshot ==
    /\ [](\A k \in 1..Len(workers) :
            LET w == workers[k] IN
            /\ w.idx \in 1..(Len(w.items) + 1)
            /\ Len(w.out) = w.published
            /\ IsSubSeqOf(OutLinks(w), FirstN(w.items, w.idx))
            /\ w.pc \notin {"sleep", "done"} => IsSubSeqOf(OutLinks(w), FirstN(w.items, w.idx - 1)))
    /\ [][/\ Started =>
              LET items == workers'[Len(workers')].items IN
              /\ Len(workers') = Len(workers) + 1
              /\ IsSubSeqOf(items, ss.news_items)
              /\ SeqToSet(items) = {l \in SeqToSet(ss.news_items) : ss.summaries[l] = None}
              /\ Cardinality(SeqToSet(items)) = Len(items)
              /\ workers'[Len(workers')].idx = 1
          /\ \A k \in 1..Len(workers) :
               LET w == workers[k]
                   v == workers'[k]
               IN /\ v.items = w.items
                  /\ v.idx \in {w.idx, w.idx + 1}
                  /\ v.published > w.published =>
                        /\ v.published = w.published + 1
                        /\ Len(queue') = Len(queue) + 1
                        /\ queue'[Len(queue')][1] = w.items[w.idx]
                        /\ v.out = Append(w.out, queue'[Len(queue')])]_vars

\* The second worker of a session took only the item of the new feed that
\* the cache prefetch had not filled, and has published it.
C11_Witness ==
    /\ Len(workers) = 2
    /\ ss.news_items = <<2, 3>>
    /\ workers[2].items = <<3>>
    /\ OutLinks(workers[2]) = <<3>>
    /\ OutLinks(workers[1]) = <<1, 2>>

\* C12: a worker that finds no GPU ends at once: it has read no cache,
\* extracted no text, asked no model and put no result, its step leaves
\* queue and cache alone, and ended it does nothing more.
C12_NoGpuNoWork ==
    /\ [](\A k \in 1..Len(workers) :
            LET w == workers[k] IN
            "nogpu" \in w.did =>
               /\ w.pc = "done"
               /\ w.did = {"nogpu"}
               /\ w.out = <<>> /\ w.published = 0
               /\ w.idx = 1 /\ w.text = NoText)
    /\ [][\A k \in 1..Len(workers) :
            LET w == workers[k]
                v == workers'[k]
            IN /\ ("nogpu" \in v.did /\ "nogpu" \notin w.did) =>
                     /\ w.pc = "gpu" /\ v.pc = "done"
                     /\ queue' = queue /\ cache' = cache /\ ss' = ss
               /\ w.pc = "done" =>
                     v.pc = "done" /\ v.out = w.out /\ v.did = w.did]_vars

\* The only worker of the session found no GPU: it is ended and both items
\* of the feed are still without summary.
C12_Witness ==
    /\ Len(workers) = 1
    /\ workers[1].did = {"nogpu"}
    /\ workers[1].pc = "done"
    /\ workers[1].items = <<1, 2>>
    /\ ss.summaries[1] = None /\ ss.summaries[2] = None
    /\ queue = <<>>
    /\ script = "idle"

---------------------------------------------------------------------------
(* Claims about the result queue between one worker and the consumer,
   checked under SpecWorker *)

\* How often pair pr is in the queue.
InQueue(pr) == Cardinality({i \in 1..Len(queue) : queue[i] = pr})

\* C13: every pair a worker has put is either once in the queue and not yet
\* in summaries, or no more in the queue and stored as summaries[link]; the
\* queue holds nothing else; a get takes the oldest pair off and stores it,
\* a put appends one pair; neither is ever made to wait; and as long as
\* the consumer keeps polling every pair that was put ends up in summaries.
C13_DrainedExactlyOnce ==
    /\ [](LET w == workers[1] IN
          /\ \A i \in 1..Len(w.out) :
                \/ InQueue(w.out[i]) = 1 /\ ss.summaries[w.out[i][1]] = None
                \/ InQueue(w.out[i]) = 0 /\ ss.summaries[w.out[i][1]] = w.out[i][2]
          /\ SeqToSet(queue) \subseteq SeqToSet(w.out)
          /\ \A l \in FeedLinks :
                l \notin SeqToSet(OutLinks(w)) => ss.summaries[l] = None
          /\ IsAlive(w) => ENABLED WorkerStep(1, WorkerEnv)
          /\ script = "render" => ENABLED RenderStep)
    /\ [][/\ Len(queue') < Len(queue) =>
              /\ queue' = Tail(queue)
              /\ ss'.summaries = [ss.summaries EXCEPT ![Head(queue)[1]] = Head(queue)[2]]
          /\ Len(queue') > Len(queue) =>
              /\ SubSeq(queue', 1, Len(queue)) = queue
              /\ Len(queue') = Len(queue) + 1
              /\ ss' = ss]_vars
    /\ ([]ss.auto_summary_enabled /\ WF_vars(FragmentPoll) /\ WF_vars(RenderStep)) =>
          \A l \in FeedLinks :
             [](l \in SeqToSet(OutLinks(workers[1])) => <>(ss.summaries[l] # None))

\* The consumer has stored the first pair while the second, put during
\* the poll, is waiting in the queue.
C13_Witness ==
    /\ Len(workers[1].out) = 2
    /\ queue = <<workers[1].out[2]>>
    /\ ss.summaries[1] = workers[1].out[1][2]
    /\ ss.summaries[2] = None
    /\ script = "render"

---------------------------------------------------------------------------
(* Claims about the worker and the session state, checked under Spec *)

\* C14: a step of a worker leaves the session state, the widgets and the
\* position of the page script as they are, changes no other worker, keeps
\* its own arguments, and changes the queue only by appending to it.
C14_WorkerFrame ==
    [][\A k \in 1..Len(workers) :
         Steps(k) =>
            /\ ss' = ss /\ widgets' = widgets /\ script' = script
            /\ IsPrefix(queue, queue')
            /\ Len(queue') <= Len(queue) + 1
            /\ Len(workers') = Len(workers)
            /\ \A j \in 1..Len(workers) : j # k => workers'[j] = workers[j]
            /\ workers'[k].items = workers[k].items
            /\ workers'[k].model = workers[k].model
            /\ workers'[k].stop = workers[k].stop]_vars

\* The worker has gone through its backlog and put two results while the
\* session's summaries are still as the script left them.
C14_Witness ==
    /\ Len(workers) = 1
    /\ workers[1].pc = "done"
    /\ Len(queue) = 2
    /\ ss.summaries = NoSummaries
    /\ ss.auto_thread = 1
    /\ script = "idle"

\* The session's worker has ended with work left: auto-summary is on, a
\* model is selected, and with the queue drained some item of the feed is
\* still without summary.  The user could still act (calls < MaxRuns).
WorkerGone ==
    /\ script = "idle" /\ queue = <<>>
    /\ calls < MaxRuns
    /\ ss.auto_summary_enabled /\ Truthy(ss.selected_model)
    /\ ss.auto_thread # 0 /\ ~IsAlive(workers[ss.auto_thread])
    /\ ItemsToProcess(ss.news_items, ss.summaries) # <<>>

\* C15: after the worker has ended with work left, a fresh worker is
\* eventually running without anything done by the user.  Fails: the timer
\* reruns render_news_list alone, and threads are started only by the
\* thread management of a whole script run.
C15_RestartOnPoll ==
    \A n \in 0..MaxRuns :
       (WorkerGone /\ calls = n) ~>
          \/ ss.auto_thread # 0 /\ IsAlive(workers[ss.auto_thread])
          \/ calls > n      \* the user has done something

\* What the code does keep: a worker is started only by the thread
\* management step of a whole script run, never by a poll.
StartOnlyInThreadStep == [][Started => script = "thread" /\ script' = "render"]_vars

---------------------------------------------------------------------------
(* Claims about concurrent cache writes, checked under SpecSave *)

BothSaved == workers[1].pc = "done" /\ workers[2].pc = "done"

\* The row the call that upserted last has written.
LastWritten ==
    Row(workers[last.by].link, workers[last.by].summary, workers[last.by].model, last.at)

\* C17: when two concurrent save_summary_to_cache calls have both returned,
\* with different links both rows are in the table, with the same link
\* exactly one row is, carrying the later write's timestamp and summary.
\* Fails by the cleanup of C2: rows of one second tie at the cut.
C17_ConcurrentPuts ==
    BothSaved =>
       IF workers[1].link # workers[2].link
       THEN \A k \in 1..2 :
               RowsFor(cache, workers[k].link) =
                  {Row(workers[k].link, workers[k].summary, workers[k].model, workers[k].at)}
       ELSE RowsFor(cache, workers[1].link) = {LastWritten}

\* What the code does keep: never two rows of one link_hash, a row of the
\* calls' links that is in the table is the one written last for it, and
\* both calls' rows are there whenever no other row shares their second.
C17_WithoutTies ==
    /\ \A k \in 1..2 : Cardinality(RowsFor(cache, workers[k].link)) <= 1
    /\ BothSaved =>
         /\ workers[1].link = workers[2].link =>
               RowsFor(cache, workers[1].link) \subseteq {LastWritten}
         /\ (\A r \in cache, k \in 1..2 :
                r.created_at = workers[k].at => r.link \in {workers[1].link, workers[2].link})
            => C17_ConcurrentPuts

---------------------------------------------------------------------------
(* Claims about Regen racing the worker, checked under SpecRegen *)

\* Worker 1 was in its model call for Regen's link when Regen asked the model.
Raced == last.op = "regenerated" /\ last.asked
         /\ last.spotAsked = [pc |-> "model", link |-> last.link]

\* The summary worker record w has put for link l, None without one.
PutFor(w, l) ==
    IF \E i \in 1..Len(w.out) : w.out[i][1] = l
    THEN (CHOOSE pr \in SeqToSet(w.out) : pr[1] = l)[2]
    ELSE None

\* C16: Regen and the worker in generate_summary for one link at once are
\* not deduplicated and do not wait: each one's model call can return
\* whatever the other does, the return of one leaves the other in its call,
\* each write-through makes the one row of the link its own, nothing else
\* changes the table, and once both are back the row carries the summary
\* of the write that came last.
C16_NoDedupLastWins ==
    /\ [](/\ \A l \in FeedLinks : Cardinality(RowsFor(cache, l)) <= 1
          /\ script = "regen-model" => ENABLED RegenModel
          /\ \A k \in 1..Len(workers) :
                workers[k].pc = "model" => ENABLED WorkerModel(k, WorkerEnv)
          /\ (Raced /\ last.spotBack # last.spotAsked) =>
                \* the worker was back first: Regen's write, if any, is the last
                /\ "ask" \in workers[1].did
                /\ RowsFor(cache, last.link) =
                      IF Truthy(last.ret)
                      THEN {Row(last.link, last.ret, ss.selected_model, now)}
                      ELSE IF Truthy(PutFor(workers[1], last.link))
                      THEN {Row(last.link, PutFor(workers[1], last.link), workers[1].model, now)}
                      ELSE {}
          /\ (Raced /\ last.spotBack = last.spotAsked /\ WorkerSpot # last.spotAsked) =>
                \* Regen was back first: the worker's write, if any, is the last
                RowsFor(cache, last.link) =
                      IF Truthy(PutFor(workers[1], last.link))
                      THEN {Row(last.link, PutFor(workers[1], last.link), workers[1].model, now)}
                      ELSE IF Truthy(last.ret)
                      THEN {Row(last.link, last.ret, ss.selected_model, now)}
                      ELSE {})
    /\ [][/\ (script = "regen-model" /\ script' # script) =>
              /\ workers' = workers
              /\ IF Truthy(last'.ret)
                 THEN RowsFor(cache', last.link) =
                         {Row(last.link, last'.ret, ss.selected_model, now)}
                 ELSE cache' = cache
          /\ \A k \in 1..Len(workers) :
               (workers[k].pc = "model" /\ workers'[k].pc # "model") =>
                  /\ script' = script /\ last' = last
                  /\ IF workers'[k].published > workers[k].published
                     THEN RowsFor(cache', CurrentLink(k)) =
                             {Row(CurrentLink(k), workers'[k].out[Len(workers'[k].out)][2],
                                  workers[k].model, now)}
                     ELSE cache' = cache
          /\ cache' # cache =>
               \/ script = "regen-model" /\ script' # script
               \/ \E k \in 1..Len(workers) :
                     workers[k].pc = "model" /\ workers'[k].pc # "model"]_vars

\* Both were in the model call for item 1; the worker came back first with
\* "sumA" and put it, Regen then came back with "sumB": the row says "sumB".
C16_Witness ==
    /\ Raced
    /\ last.link = 1 /\ last.ret = "sumB"
    /\ last.spotBack.pc = "sleep"
    /\ PutFor(workers[1], 1) = "sumA"
    /\ RowsFor(cache, 1) = {Row(1, "sumB", "m1", 0)}

---------------------------------------------------------------------------
(* Claims about a whole run of one worker, checked under SpecRun *)

\* The run is over and was as C18 supposes: a GPU, no cache hit, no stop
\* signal, no extraction under 100 characters, no model call failing.
CleanRun(w) ==
    /\ w.pc = "done" /\ ~w.stop
    /\ w.did \cap {"nogpu", "hit", "short", "badreply"} = {}

\* n pairs, one per link in backlog order, and a cache entry per link.
FullOutcome(w) ==
    /\ w.published = Len(w.items)
    /\ OutLinks(w) = w.items
    /\ \A i \in 1..Len(w.items) : RowsFor(cache, w.items[i]) # {}

C19_Terminates ==
    /\ [](/\ \A k \in 1..Len(workers) :
               /\ workers[k].idx \in 1..(Len(workers[k].items) + 1)
               /\ IsAlive(workers[k]) => ENABLED WorkerStep(k, RunEnv)
          /\ script \in {"source", "thread", "render"} =>
               ENABLED (SourceStep \/ ThreadStep \/ RenderStep))
    /\ [][\A k \in 1..Len(workers) :
            LET w == workers[k]
                v == workers'[k]
            IN /\ v.idx \in {w.idx, w.idx + 1}
               /\ (v.pc = "check" /\ w.pc \in {"lookup", "sleep"}) => v.idx = w.idx + 1
               /\ (v.pc = "lookup" /\ w.pc # "lookup") => w.pc = "check" /\ v.idx = w.idx
               /\ w.pc = "done" => v.pc = "done"]_vars
    /\ WF_vars(WorkerStep(1, RunEnv)) => <>(workers[1].pc = "done")

\* The worker has ended past the last item after a cache hit, an exception
\* and a model call.
C19_Witness ==
    /\ workers[1].pc = "done"
    /\ workers[1].idx = Len(RunItems) + 1
    /\ {"hit", "raise", "ask"} \subseteq workers[1].did
    /\ ~workers[1].stop

\* C20: a worker asks the model only when it has slept since it last asked:
\* after a model call comes the sleep, and nothing but the sleep lets it
\* ask again, whether the items in between are cache hits or raise.
C20_SleepBetweenModelCalls ==
    /\ [](\A k \in 1..Len(workers) : workers[k].pc = "model" => ~workers[k].rested)
    /\ [][\A k \in 1..Len(workers) :
            LET w == workers[k]
                v == workers'[k]
            IN /\ (w.pc # "model" /\ v.pc = "model") => w.rested /\ w.pc = "gen"
               /\ (w.pc = "model" /\ v.pc # "model") => v.pc = "sleep" /\ ~v.rested
               /\ (v.rested /\ ~w.rested) => w.pc = "sleep"
               /\ (w.pc = "sleep" /\ v.pc # "sleep") => v.rested]_vars

\* The worker asks the model for item 3 after a model call and its sleep
\* for item 1 and an exception, without sleep, for item 2.
C20_Witness ==
    /\ workers[1].pc = "model"
    /\ workers[1].idx = 3
    /\ OutLinks(workers[1]) = <<1>>
    /\ workers[1].did = {"read", "extract", "ask", "raise"}

\* C28: an exception raised while the worker processes an item leaves the
\* worker alive at the stop check of the next item, with nothing published
\* for the item; a worker that had a GPU ends only past the last item of its
\* backlog or at a stop check with the stop signal set, and until then it
\* has a step to take.
C28_ExceptionCaught ==
    /\ [](\A k \in 1..Len(workers) :
            LET w == workers[k] IN
            /\ (w.pc = "done" /\ "nogpu" \notin w.did) =>
                  w.idx > Len(w.items) \/ w.stop
            /\ IsAlive(w) => ENABLED WorkerStep(k, RunEnv))
    /\ [][\A k \in 1..Len(workers) :
            LET w == workers[k]
                v == workers'[k]
            IN /\ (w.pc = "lookup" /\ v.pc \notin {"lookup", "extract"}
                                   /\ v.out = w.out) =>
                    /\ "raise" \in v.did
                    /\ v.pc = "check" /\ v.idx = w.idx + 1 /\ IsAlive(v)
                    /\ queue' = queue /\ cache' = cache
               /\ (v.pc = "done" /\ w.pc # "done") => w.pc \in {"gpu", "check"}]_vars

\* The lookup of item 1 has raised: the worker is at the lookup of item 2.
C28_Witness ==
    /\ workers[1].pc = "lookup" /\ workers[1].idx = 2
    /\ workers[1].did = {"raise"}
    /\ workers[1].out = <<>> /\ ~workers[1].stop

\* C21: when the lookup of the current item returns a cached summary the
\* worker puts (link, that summary) on the queue and is at the next item's
\* stop check, the table untouched, nothing extracted and no model asked;
\* the extraction is entered only from a lookup that put nothing, and the
\* orchestrator and its model call only after the extraction of this item.
C21_HitSkipsExtraction ==
    [][\A k \in 1..Len(workers) :
         LET w == workers[k]
             v == workers'[k]
             link == w.items[w.idx]
             rows == RowsFor(cache, link)
         IN /\ (w.pc = "lookup" /\ v.pc # "lookup" /\ rows # {}) =>
                 \/ /\ v.did = w.did \cup {"raise"}
                    /\ v.pc = "check" /\ v.out = w.out /\ queue' = queue
                 \/ /\ \E r \in rows :
                          /\ v.out = Append(w.out, <<link, r.summary>>)
                          /\ queue' = Append(queue, <<link, r.summary>>)
                    /\ v.pc = "check" /\ v.idx = w.idx + 1
                    /\ v.text = w.text /\ cache' = cache
                    /\ v.did = w.did \cup {"read", "hit"}
            /\ (v.pc = "extract" /\ w.pc # "extract") =>
                 /\ w.pc = "lookup" /\ rows = {}
                 /\ v.out = w.out /\ queue' = queue
            /\ (v.pc = "gen" /\ w.pc # "gen") =>
                 w.pc = "extract" /\ v.idx = w.idx /\ "extract" \in v.did
            /\ (v.pc = "model" /\ w.pc # "model") =>
                 w.pc = "gen" /\ v.idx = w.idx /\ v.text = w.text]_vars

\* Item 2 was cached: the worker has published the cached summary for it
\* and is at item 3 having extracted and asked the model for item 1 only.
C21_Witness ==
    /\ workers[1].idx = 3 /\ workers[1].pc = "check"
    /\ Len(workers[1].out) = 2
    /\ workers[1].out[2] = <<2, "old">>
    /\ PutFor(workers[1], 1) = "sumA"
    /\ "hit" \in workers[1].did
    /\ RowsFor(cache, 2) = {OldRow(2)}

\* The pair worker k puts on the queue in this step, <<>> when it puts none.
NewPair(k) ==
    IF Len(workers'[k].out) > Len(workers[k].out)
    THEN workers'[k].out[Len(workers'[k].out)]
    ELSE <<>>

\* C32: every (link, summary) pair the worker publishes is a summary stored
\* in the cache for that link at the time of the put (a hit or a fresh
\* write-through); the fixed short-text result and the model client's error
\* string are never published.
C32_PublishedIsCached ==
    [][\A k \in 1..Len(workers) :
          NewPair(k) # <<>> =>
              /\ NewPair(k)[2] \notin {TooShortMsg, ErrReply}
              /\ \E r \in RowsFor(cache', NewPair(k)[1]) :
                    r.summary = NewPair(k)[2]]_vars

\* What the code keeps: a published summary is non-empty and is what the
\* lookup found or what generate_summary returned: the stored summary, the
\* fixed short-text result, or the model's reply, which is then stored for
\* the link unless the store refused the write.
PublishedIsReturned ==
    [][\A k \in 1..Len(workers) :
          NewPair(k) # <<>> =>
              LET link == NewPair(k)[1]
                  summary == NewPair(k)[2]
              IN /\ Truthy(summary)
                 /\ link = CurrentLink(k)
                 /\ \/ \E r \in RowsFor(cache', link) : r.summary = summary
                    \/ summary = TooShortMsg /\ workers[k].pc = "gen"
                                             /\ TooShort(workers[k].text)
                    \/ workers[k].pc = "model" /\ cache' = cache
                          /\ "unsaved" \in workers'[k].did]_vars

\* C33: the model is never invoked on an extractor diagnostic: when
\* get_full_text returned one of its failure messages, the generate_summary
\* call that follows returns without a model call and without a cache
\* write.
C33_NoModelOnDiagnostic ==
    [][\A k \in 1..Len(workers) :
          LET w == workers[k]
              v == workers'[k]
          IN (w.pc = "gen" /\ w.text.kind = "message" /\ v.pc # "gen") =>
                /\ v.pc = "sleep"
                /\ "ask" \notin v.did \ w.did
                /\ cache' = cache]_vars

\* What the code keeps: a failure message shorter than 100 characters is
\* stopped by the short-text guard like any short text.
ShortDiagnosticGuarded ==
    [][\A k \in 1..Len(workers) :
          LET w == workers[k]
              v == workers'[k]
          IN (w.pc = "gen" /\ w.text = Diagnostic(CouldNotLen) /\ v.pc # "gen") =>
                /\ v.pc = "sleep"
                /\ cache' = cache
                /\ v.out = Append(w.out, <<CurrentLink(k), TooShortMsg>>)
                     \/ \E r \in RowsFor(cache, CurrentLink(k)) :
                           v.out = Append(w.out, <<CurrentLink(k), r.summary>>)]_vars

\* C34: at the moment a new worker is started its backlog holds no link for
\* which a result is waiting undrained in the result queue: the start
\* decision has seen every result the earlier workers delivered.
C34_StartSeesResults ==
    [][Len(workers') > Len(workers) =>
          \A i \in 1..Len(queue') :
              queue'[i][1] \notin SeqToSet(workers'[Len(workers')].items)]_vars

\* Worker 1 at spot had finished with link l: it had put its result for l,
\* if any, before.
DoneWith(spot, l) ==
    LET items == workers[1].items
        at(x) == CHOOSE i \in 1..Len(items) : items[i] = x
    IN  \/ spot.link = NoLink
        \/ spot.link # l /\ at(spot.link) > at(l)
        \/ spot.link = l /\ spot.pc = "sleep"

\* C35: once Regen has stored its summary in summaries[link], a result for
\* the link that the worker produced from an earlier generation does not
\* replace it on a later drain: with the queue drained the summary shown for
\* the link is the regenerated one.
C35_RegenNotReplaced ==
    (/\ last.op = "regenerated" /\ Truthy(last.ret)
     /\ DoneWith(last.spotBack, last.link)
     /\ script = "idle" /\ queue = <<>>) =>
        ss.summaries[last.link] = last.ret

---------------------------------------------------------------------------
(* Claims about the power control, checked under SpecPower, SpecPowerLive
   and SpecShared *)

\* A run of render_ui of the device has just passed step 5.
Rendered(name) == last.op = "render" /\ last.name = name

\* C37: in a session that stays open (the state file writable, ping
\* answering or not), a run that finds 'booting' with the host online or
\* more than 120 seconds after start_time clears the action, a run that
\* finds 'shutdown' more than 10 seconds after start_time clears it
\* whether the host answers ping or not, and every pending action of a
\* device polled leads to the persisted action None.
C37_PendingEnds ==
    /\ [](\A name \in Watched(1) :
             /\ (/\ Rendered(name) /\ last.action = "booting"
                 /\ (last.online \/ last.elapsed > BootTimeout))
                => last.did = "clear"
             /\ (Rendered(name) /\ last.action = "shutdown"
                 /\ last.elapsed > ShutdownTimeout)
                => last.did = "clear")
    /\ \A name \in Watched(1) : Pending(name) ~> ~Pending(name)

\* A shutdown is cleared after its 10 seconds while the host still answers.
C37_Witness ==
    /\ Rendered("pc1") /\ last.action = "shutdown" /\ last.online
    /\ last.elapsed > ShutdownTimeout /\ last.did = "clear"
    /\ workers[1].pc = "read" /\ workers[1].put = NoAction

\* A booting action is cleared by its timeout with the host offline.
BootTimesOut ==
    /\ Rendered("pc1") /\ last.action = "booting" /\ ~last.online
    /\ last.elapsed > BootTimeout /\ last.did = "clear"

\* C38: a step that changes the persisted state of a device whose action
\* is 'booting' or 'shutdown' clears it (no other action starts), and a run
\* whose command fails, or whose Power OFF finds the device offline, ends
\* without writing the state.
C38_NoSecondAction ==
    [][/\ \A name \in Devices :
             LET a == GetState(file, name)
                 b == GetState(file', name)
             IN (a.action # None /\ b # a) => b = NoAction
       /\ \A k \in 1..Len(workers) :
             (/\ workers[k].pc = "loaded" /\ workers'[k].pc # "loaded"
              /\ last'.did \in {"failed", "offline"})
             => file' = file /\ workers'[k] = IdleThread]_vars

\* The part of C38 about presses that do nothing: such a run ends without
\* entering _update_state.
FailedPressWritesNothing ==
    [][\A k \in 1..Len(workers) :
          (/\ workers[k].pc = "loaded" /\ workers'[k].pc # "loaded"
           /\ last'.did \in {"failed", "offline"})
          => file' = file /\ workers'[k] = IdleThread]_vars

\* A run drew the buttons enabled although the file holds a pending action
\* of the device by now, and goes on to write another one.
StaleButtons ==
    \E k \in 1..Len(workers) :
       /\ workers[k].pc \in {"read", "write"}
       /\ workers[k].put.action # None
       /\ Pending(workers[k].name)

\* The entries of a state file, none when it is missing or unreadable.
Entries(f) == ReadData(f)

\* C39: an _update_state of one device leaves the entries of all other
\* devices as they were in the file just before its write.
C39_OthersPreserved ==
    last.op = "update" =>
       \A d \in Devices \ {last.name} : Entries(file)[d] = Entries(last.before)[d]

\* The write of an update that read the file before another update wrote it.
StaleData ==
    \E k \in 1..Len(workers) :
       workers[k].pc = "write" /\ workers[k].data # ReadData(file)

====
